---- MODULE Spec2Model ----
(***************************************************************************)
(* Rate-limit coordination of discord-api-proxy.                           *)
(*                                                                         *)
(* Two generations of the coordination layer are in the source tree:       *)
(*   - src/redis.rs + src/proxy.rs        : the scripts are embedded Lua,  *)
(*     the controller is DiscordProxy::is_global_or_bucket_ratelimited;    *)
(*   - src/redis/mod.rs + src/ratelimits.rs : the controller is            *)
(*     Proxy::check_ratelimits, the waiter table is ProxyRedisClient, the  *)
(*     Lua files it loads are not in the tree.                             *)
(* SpecStore is the first generation (store scripts and their caller).     *)
(* SpecWait is the waiter table of the second generation, Spec is the      *)
(* controller of the second generation.                                    *)
(*                                                                         *)
(* Lock tokens are 8 random alphanumeric characters in the code; they are  *)
(* modelled as values that are never drawn twice (<<request, attempt>>).   *)
(***************************************************************************)
EXTENDS Integers, Sequences, FiniteSets, TLC

\* ------------------------------------------------------------------------
\* Bounds
\* ------------------------------------------------------------------------
NumOldReqs == 2
MaxTries == 3
MaxSlice == 1
NumReqs == 3
MaxAttempts == 3

\* reconnects of the store connections, and admission round trips the
\* client is asked for
MaxReconnects == 2
MaxServed == 2

\* units of the global slice counters a request is counted to have spent
MaxSpent == 2

\* calls of await_lock by one task, and calls of release_lock
MaxRounds == 2
MaxReleases == 2

\* ------------------------------------------------------------------------
\* Values
\* ------------------------------------------------------------------------
Nil == -1
NoTok == <<0, 0>>

\* one identity and one route bucket of that identity
GKey == "g"
RKey == "r"
Keys == {GKey, RKey}

OldReqs == 1..NumOldReqs

\* second generation: requests, and the two proxy replicas they arrive at
Reqs == 1..NumReqs
Procs == {1, 2}
ProcOf(r) == (r % 2) + 1

\* requests/second an identity can be found to have (discord.rs yields 50,
\* 500 or 25*m; scaled down so that a slice can be filled)
GlobalLimits == {1, 2, 3}
\* X-RateLimit-Limit values of a response; 0 is what update_ratelimits
\* passes when the header is missing
RouteLimits == {0, 1, 2}
\* limits the second generation discovers: the global limit fetched from
\* upstream, X-RateLimit-Limit of a response
FetchedLimits == {1, 2}
HeaderLimits == {0, 1}
\* expiry timestamps handed to PEXPIREAT: 0 (header missing), a time that
\* is already over when the script runs, a time still to come
ExpireAts == {"zero", "past", "future"}

VARIABLES
    store,      \* the key/value store: rec, cnt, exp, lock
    opc,        \* position of each first-generation request
    otoken,     \* lock value the request holds
    otries,     \* admission round trips the request has made
    oslice,     \* which global counter key the request's last INCR went to
    slice,      \* how many global counter keys have expired so far
    admitted,   \* per global counter key, the requests let through on it
    ret,        \* the last script call: its name and what it returned (for
                \* set_route_expiry, with the remaining it was given)
    kv,         \* the store as the second generation uses it
    pc,         \* position of each request in Proxy::check_ratelimits
    tok,        \* lock_token of the request's current round trip
    trips,      \* admission round trips made so far, by all requests
    overload_count,
    fetch,      \* fetch_global_ratelimit of the request: none, todo, done
    wait,       \* await_lock of the request: none, reg, waiting, cleanup1, cleanup2, done
    wkey,       \* the key the request waits for
    sig,        \* whether the request's oneshot receiver holds a value
    chan,       \* pubsub_channels of each replica: key -> pending_clients
    inbox,      \* unlock messages each replica's subscriber has yet to handle
    slow,       \* consecutive round trips of the request that took over 50 ms
    regno,      \* registration number of the request's waiter
    call,       \* the function last applied on its own, with its arguments
    result,     \* what that function returned
    client,     \* ProxyRedisClient and the store's side of its two connections
    loop,       \* one request in the loop of check_ratelimits, with the clock
    table       \* pubsub_channels with its locks, and the tasks working on it

ovars == <<store, opc, otoken, otries, oslice, slice, admitted>>
nvars == <<kv, pc, tok, trips, overload_count, fetch, wait, wkey, sig, chan, inbox, slow, regno>>
fvars == <<call, result, client, loop, table>>
vars == <<store, opc, otoken, otries, oslice, slice, admitted, ret, kv, pc, tok, trips, overload_count, fetch, wait, wkey, sig, chan, inbox, slow, regno, call, result, client, loop, table>>

\* ------------------------------------------------------------------------
\* The store: commands
\* ------------------------------------------------------------------------
\* rec[k]  : value of key k (a limit), Nil when the key does not exist
\* cnt[k]  : value of key k..':count', 0 when the key does not exist
\* exp[k]  : whether k..':count' has a time to live
\* lock[k] : value of key k..':lock', NoTok when the key does not exist
EmptyStore ==
    [rec  |-> [k \in Keys |-> Nil],
     cnt  |-> [k \in Keys |-> 0],
     exp  |-> [k \in Keys |-> FALSE],
     lock |-> [k \in Keys |-> NoTok]]

\* INCR k..':count'
Incr(S, k) == [S EXCEPT !.cnt[k] = @ + 1]

\* DEL k..':count'
DelCount(S, k) == [S EXCEPT !.cnt[k] = 0, !.exp[k] = FALSE]

\* PEXPIREAT k..':count' at [NX]: no effect on a missing key; with NX no
\* effect on a key that has a time to live; a time that is over deletes
PExpireAt(S, k, at, nx) ==
    IF S.cnt[k] = 0 THEN S
    ELSE IF nx /\ S.exp[k] THEN S
    ELSE IF at \in {"zero", "past"} THEN DelCount(S, k)
    ELSE [S EXCEPT !.exp[k] = TRUE]

\* ------------------------------------------------------------------------
\* The store: scripts of src/redis.rs
\* ------------------------------------------------------------------------
\* (variant: the comparison is made with the count before the INCR and is strict)
GlobalDeniedLate(count, limit) == count - 1 > limit

\* global step of the admission script: GET limit, INCR counter, compare
GlobalDenied(count, limit) == count >= limit

\* route step: compare of the route counter with the route limit
RouteDenied(count, limit) == count >= limit

\* (variant: a route denial leaves the INCR of the global counter standing)
CompensateNot(S, gk) == S

\* DECR of the global counter on a route denial, DEL when it reaches 0
Compensate(S, gk) ==
    LET S1 == [S EXCEPT !.cnt[gk] = @ - 1]
    IN  IF S1.cnt[gk] = 0 THEN DelCount(S1, gk) ELSE S1

\* returns [s |-> store after, ret |-> <<global status, route status>>]
check_global_and_route_ratelimits(S, gk, rk) ==
    LET global_limit == S.rec[gk] IN
    IF global_limit = Nil THEN [s |-> S, ret |-> <<Nil, Nil>>]
    ELSE
      LET S1 == Incr(S, gk)
          global_count == S1.cnt[gk]
      IN
      IF GlobalDenied(global_count, global_limit)
      THEN [s |-> S1, ret |-> <<0, Nil>>]
      ELSE
        LET route_limit == S1.rec[rk] IN
        IF route_limit = Nil THEN [s |-> S1, ret |-> <<global_count, Nil>>]
        ELSE IF route_limit = 0 THEN [s |-> S1, ret |-> <<global_count, 2>>]
        ELSE
          LET S2 == Incr(S1, rk)
              route_count == S2.cnt[rk]
          IN
          IF RouteDenied(route_count, route_limit)
          THEN [s |-> Compensate(S2, gk), ret |-> <<1, 0>>]
          ELSE [s |-> S2, ret |-> <<global_count, route_count>>]

\* lock is granted when the record is missing and SET NX EX 5 succeeds
lock_bucket(S, k, lock_val) ==
    IF S.rec[k] = Nil /\ S.lock[k] = NoTok
    THEN [s |-> [S EXCEPT !.lock[k] = lock_val], ret |-> TRUE]
    ELSE [s |-> S, ret |-> FALSE]

\* (variant: the stored lock value is not compared)
TokenMatchesAny(stored, lock_val) == TRUE

\* global_lock == lock_val / route_lock == lock_val / rl_lock == lock_val
TokenMatches(stored, lock_val) == stored = lock_val

unlock_global_bucket(S, gk, lock_val, global_limit) ==
    IF TokenMatches(S.lock[gk], lock_val)
    THEN [s |-> [S EXCEPT !.rec[gk] = global_limit, !.lock[gk] = NoTok],
          ret |-> TRUE]
    ELSE [s |-> S, ret |-> FALSE]

\* (variant: the route record is written before the lock is compared)
write_before_compare(S, gk, rk, global_expire_at, lock_val, route_limit, route_expire_at) ==
    LET S1 == PExpireAt(S, gk, global_expire_at, TRUE)
        S2 == [S1 EXCEPT !.rec[rk] = route_limit]
    IN  IF TokenMatches(S2.lock[rk], lock_val)
        THEN LET S3 == IF route_expire_at # "zero"
                       THEN PExpireAt(S2, rk, route_expire_at, FALSE)
                       ELSE S2
             IN  [s |-> [S3 EXCEPT !.lock[rk] = NoTok], ret |-> TRUE]
        ELSE [s |-> S2, ret |-> FALSE]

expire_global_and_unlock_route_buckets(S, gk, rk, global_expire_at, lock_val, route_limit, route_expire_at) ==
    LET S1 == PExpireAt(S, gk, global_expire_at, TRUE) IN
    IF TokenMatches(S1.lock[rk], lock_val)
    THEN
      LET S2 == [S1 EXCEPT !.rec[rk] = route_limit]
          S3 == IF route_expire_at # "zero"
                THEN PExpireAt(S2, rk, route_expire_at, FALSE)
                ELSE S2
      IN  [s |-> [S3 EXCEPT !.lock[rk] = NoTok], ret |-> TRUE]
    ELSE [s |-> S1, ret |-> FALSE]

expire_global_and_route_buckets(S, gk, rk, global_expire_at, bucket_expire_at) ==
    LET S1 == PExpireAt(S, gk, global_expire_at, TRUE)
    IN  [s |-> PExpireAt(S1, rk, bucket_expire_at, TRUE), ret |-> Nil]

\* src/redis/scripts.rs: everything is behind the token comparison
unlock_ratelimit_script(S, rk, gk, lock_val, rl_limit, rl_expire_at, global_rl_expire_at) ==
    IF TokenMatches(S.lock[rk], lock_val)
    THEN
      LET S1 == [S EXCEPT !.rec[rk] = rl_limit]
          S2 == IF rl_expire_at # "zero"
                THEN PExpireAt(S1, rk, rl_expire_at, FALSE)
                ELSE S1
          S3 == PExpireAt(S2, gk, global_rl_expire_at, TRUE)
      IN  [s |-> [S3 EXCEPT !.lock[rk] = NoTok], ret |-> TRUE]
    ELSE [s |-> S, ret |-> FALSE]

\* ------------------------------------------------------------------------
\* First generation: Init
\* ------------------------------------------------------------------------
OldInit ==
    /\ store = EmptyStore
    /\ opc = [r \in OldReqs |-> "check"]
    /\ otoken = [r \in OldReqs |-> NoTok]
    /\ otries = [r \in OldReqs |-> 0]
    /\ oslice = [r \in OldReqs |-> 0]
    /\ slice = 0
    /\ admitted = [e \in 0..MaxSlice |-> 0]
    /\ ret = <<"none", Nil>>

\* glimit     : the global limit record, Nil when missing
\* gcount     : the global slice counter of the current second
\* rlimit     : field limit of the route record, Nil when the record is missing
\* rremaining : field remaining of the route record
\* lock[k]    : value of k..':lock', NoTok when missing
EmptyKv ==
    [glimit |-> Nil,
     gcount |-> 0,
     rlimit |-> Nil,
     rremaining |-> 0,
     lock   |-> [k \in Keys |-> NoTok]]

NoChans == [k \in {} |-> <<>>]

NewInit ==
    /\ kv = EmptyKv
    /\ pc = [r \in Reqs |-> "check"]
    /\ tok = [r \in Reqs |-> NoTok]
    /\ trips = 0
    /\ overload_count = [r \in Reqs |-> 0]
    /\ fetch = [r \in Reqs |-> "none"]
    /\ wait = [r \in Reqs |-> "none"]
    /\ wkey = [r \in Reqs |-> GKey]
    /\ sig = [r \in Reqs |-> FALSE]
    /\ chan = [p \in Procs |-> NoChans]
    /\ inbox = [p \in Procs |-> <<>>]
    /\ slow = [r \in Reqs |-> 0]
    /\ regno = [r \in Reqs |-> 0]

\* ------------------------------------------------------------------------
\* ProxyRedisClient: construction, script registration, the unlock channel
\* ------------------------------------------------------------------------
\* the scripts in the order register_scripts loads them
SCRIPTS ==
    <<"check_global_and_route_rl", "check_route_rl", "lock_bucket", "unlock_global",
      "unlock_route", "set_route_expiry">>

\* new: where ProxyRedisClient::new is ("registering", "returned", "failed")
\* registered: how many scripts new has loaded
\* reload: the reconnect task, Nil when idle or the number of scripts it has reloaded
\* pubsub: the task of start_pubsub_task ("unspawned", "subscribing",
\*         "sleeping", "subscribed")
\* cached: the scripts in the store's script cache
\* subscribed: the store has the subscriber connection on channel unlock
\* reconnects, served: counters of reconnects and of admission round trips
\* last: what the last admission round trip met
ClientInit ==
    [new |-> "registering", registered |-> 0, reload |-> Nil, pubsub |-> "unspawned",
     cached |-> {}, subscribed |-> FALSE, reconnects |-> 0, served |-> 0,
     last |-> <<"none">>]

\* the request before check_ratelimits is called
\* pc: "idle", "top" (of the loop), "fetch", "wait", "returned"
\* K: the store; ms, slice: the clock's milliseconds within its second, and
\*    the parity of the second
\* n: parity of the number of round trips made
\* fetch: fetch_global_ratelimit is still to run; waiting: await_lock is
\*    still to return; wkey, sig: its key, and whether its receiver holds a value
\* spent: what the script calls of the request have added to the slice
\*    counters (g) and taken from the route's remaining (r)
\* last: the last round trip
LoopInit ==
    [pc |-> "idle", K |-> EmptyKv, ms |-> 0, slice |-> 0, n |-> 0, overload_count |-> 0,
     exit |-> "none", fetch |-> FALSE, waiting |-> FALSE, wkey |-> GKey, sig |-> FALSE,
     spent |-> [g |-> 0, r |-> 0],
     last |-> [check_time |-> 0, data |-> <<>>, kind |-> "none"]]

\* the tasks of the waiter table: two that wait, one that dispatches unlocks
WaiterTasks == {1, 2}
ReleaseTask == 3

\* map: the channel the table holds under the key; next: the next channel made
\* queue: pending_clients of each channel; mx: the task that holds its mutex
\* readers, writer: the tasks that hold the table's RwLock
\* pc, ch: where each task stands, and the channel it has cloned
\* round: calls made; live: the receiver of the running call is not dropped
\* sent: the senders a value was sent through and not yet received
TableInit ==
    [map |-> Nil, next |-> 1, queue |-> [c \in 1..(2 * MaxRounds) |-> <<>>],
     mx |-> [c \in 1..(2 * MaxRounds) |-> Nil], readers |-> {}, writer |-> Nil,
     pc |-> [t \in WaiterTasks \cup {ReleaseTask} |-> "idle"], ch |-> [t \in WaiterTasks \cup {ReleaseTask} |-> Nil],
     round |-> [t \in WaiterTasks \cup {ReleaseTask} |-> 0], live |-> [t \in WaiterTasks \cup {ReleaseTask} |-> FALSE],
     sent |-> {}]

FnInit ==
    /\ call = <<"none">>
    /\ result = <<"none">>
    /\ client = ClientInit
    /\ loop = LoopInit
    /\ table = TableInit

Init == OldInit /\ NewInit /\ FnInit

\* ------------------------------------------------------------------------
\* First generation: DiscordProxy::is_global_or_bucket_ratelimited
\* ------------------------------------------------------------------------
\* one iteration of the loop up to its next store call
OldCheck(r) ==
    /\ UNCHANGED <<nvars, fvars>>
    /\ opc[r] = "check"
    /\ otries[r] < MaxTries
    /\ LET res == check_global_and_route_ratelimits(store, GKey, RKey)
           global_ratelimit == res.ret[1]
           route_ratelimit == res.ret[2]
           next == IF global_ratelimit = Nil THEN "lock_global"
                   ELSE IF global_ratelimit = 0 THEN "global_ratelimited"
                   ELSE IF route_ratelimit = Nil THEN "lock_route"
                   ELSE IF route_ratelimit = 0 THEN "route_ratelimited"
                   ELSE "ok"
       IN  /\ store' = res.s
           /\ ret' = <<"check", res.ret>>
           /\ opc' = [opc EXCEPT ![r] = next]
           /\ admitted' = IF next = "ok"
                          THEN [admitted EXCEPT ![slice] = @ + 1]
                          ELSE admitted
    /\ otries' = [otries EXCEPT ![r] = @ + 1]
    /\ oslice' = [oslice EXCEPT ![r] = slice]
    /\ UNCHANGED <<otoken, slice>>

\* global record missing: lock_bucket on the global key; a lost lock sleeps
\* lock_timeout and goes round again
OldLockGlobal(r) ==
    /\ UNCHANGED <<nvars, fvars>>
    /\ opc[r] = "lock_global"
    /\ LET lock_value == <<r, otries[r]>>
           res == lock_bucket(store, GKey, lock_value)
       IN  /\ store' = res.s
           /\ ret' = <<"lock_bucket", res.ret>>
           /\ otoken' = [otoken EXCEPT ![r] = IF res.ret THEN lock_value ELSE NoTok]
           /\ opc' = [opc EXCEPT ![r] = IF res.ret THEN "fetch_global" ELSE "check"]
    /\ UNCHANGED <<otries, oslice, slice, admitted>>

\* fetch_discord_global_ratelimit, then unlock_global_bucket, then continue
OldUnlockGlobal(r) ==
    /\ UNCHANGED <<nvars, fvars>>
    /\ opc[r] = "fetch_global"
    /\ \E ratelimit \in GlobalLimits :
         LET res == unlock_global_bucket(store, GKey, otoken[r], ratelimit)
         IN  /\ store' = res.s
             /\ ret' = <<"unlock_global_bucket", res.ret>>
    /\ opc' = [opc EXCEPT ![r] = "check"]
    /\ otoken' = [otoken EXCEPT ![r] = NoTok]
    /\ UNCHANGED <<otries, oslice, slice, admitted>>

\* route record missing: lock_bucket on the route key; the winner is let
\* through with the lock value, a loser sleeps and goes round again
OldLockRoute(r) ==
    /\ UNCHANGED <<nvars, fvars>>
    /\ opc[r] = "lock_route"
    /\ LET lock_value == <<r, otries[r]>>
           res == lock_bucket(store, RKey, lock_value)
       IN  /\ store' = res.s
           /\ ret' = <<"lock_bucket", res.ret>>
           /\ otoken' = [otoken EXCEPT ![r] = IF res.ret THEN lock_value ELSE NoTok]
           /\ opc' = [opc EXCEPT ![r] = IF res.ret THEN "ok_locked" ELSE "check"]
           /\ admitted' = IF res.ret
                          THEN [admitted EXCEPT ![oslice[r]] = @ + 1]
                          ELSE admitted
    /\ UNCHANGED <<otries, oslice, slice>>

\* ------------------------------------------------------------------------
\* First generation: DiscordProxy::proxy_request after the admission
\* ------------------------------------------------------------------------
\* a PEXPIREAT of the update may end the global counter key only while
\* another key can still be told apart
SliceRoom(S, global_expire_at) ==
    \/ slice < MaxSlice
    \/ global_expire_at = "future"
    \/ S.cnt[GKey] = 0
    \/ S.exp[GKey]

\* the upstream answered: update_ratelimits spawns the script call
OldUpdate(r) ==
    /\ UNCHANGED <<nvars, fvars>>
    /\ opc[r] \in {"ok", "ok_locked"}
    /\ \E bucket_limit \in RouteLimits, reset_at \in ExpireAts,
          global_at \in {"past", "future"} :
         /\ SliceRoom(store, global_at)
         /\ LET res == IF opc[r] = "ok_locked"
                       THEN expire_global_and_unlock_route_buckets(
                              store, GKey, RKey, global_at, otoken[r],
                              bucket_limit, reset_at)
                       ELSE expire_global_and_route_buckets(
                              store, GKey, RKey, global_at, reset_at)
            IN  /\ store' = res.s
                /\ ret' = <<IF opc[r] = "ok_locked" THEN "unlock_route" ELSE "expire", res.ret>>
                /\ slice' = IF store.cnt[GKey] > 0 /\ res.s.cnt[GKey] = 0
                            THEN slice + 1 ELSE slice
    /\ opc' = [opc EXCEPT ![r] = "done"]
    /\ otoken' = [otoken EXCEPT ![r] = NoTok]
    /\ UNCHANGED <<otries, oslice, admitted>>

\* the same update made with the script of src/redis/scripts.rs
OldUpdateScripts(r) ==
    /\ UNCHANGED <<nvars, fvars>>
    /\ opc[r] = "ok_locked"
    /\ \E rl_limit \in RouteLimits, rl_expire_at \in ExpireAts,
          global_at \in {"past", "future"} :
         /\ SliceRoom(store, global_at)
         /\ LET res == unlock_ratelimit_script(store, RKey, GKey, otoken[r],
                                               rl_limit, rl_expire_at, global_at)
            IN  /\ store' = res.s
                /\ ret' = <<"unlock_ratelimit", res.ret>>
                /\ slice' = IF store.cnt[GKey] > 0 /\ res.s.cnt[GKey] = 0
                            THEN slice + 1 ELSE slice
    /\ opc' = [opc EXCEPT ![r] = "done"]
    /\ otoken' = [otoken EXCEPT ![r] = NoTok]
    /\ UNCHANGED <<otries, oslice, admitted>>

\* self.client.request(req) fails: proxy_request returns the error before
\* update_ratelimits, a route lock the request holds is left to its TTL
OldUpstreamError(r) ==
    /\ UNCHANGED <<nvars, fvars>>
    /\ opc[r] \in {"ok", "ok_locked"}
    /\ opc' = [opc EXCEPT ![r] = "error"]
    /\ UNCHANGED <<store, otoken, otries, oslice, slice, admitted, ret>>

\* ------------------------------------------------------------------------
\* The store: time
\* ------------------------------------------------------------------------
\* the time to live of k..':count' is over
ExpireCount(k) ==
    /\ UNCHANGED <<nvars, fvars>>
    /\ store.cnt[k] > 0
    /\ store.exp[k]
    /\ k = GKey => slice < MaxSlice
    /\ store' = DelCount(store, k)
    /\ slice' = IF k = GKey THEN slice + 1 ELSE slice
    /\ UNCHANGED <<opc, otoken, otries, oslice, admitted, ret>>

\* the 5 seconds of k..':lock' are over
ExpireLock(k) ==
    /\ UNCHANGED <<nvars, fvars>>
    /\ store.lock[k] # NoTok
    /\ store' = [store EXCEPT !.lock[k] = NoTok]
    /\ UNCHANGED <<opc, otoken, otries, oslice, slice, admitted, ret>>

OldNext ==
    \/ \E r \in OldReqs : OldCheck(r)
    \/ \E r \in OldReqs : OldLockGlobal(r)
    \/ \E r \in OldReqs : OldUnlockGlobal(r)
    \/ \E r \in OldReqs : OldLockRoute(r)
    \/ \E r \in OldReqs : OldUpdate(r)
    \/ \E r \in OldReqs : OldUpdateScripts(r)
    \/ \E r \in OldReqs : OldUpstreamError(r)
    \/ \E k \in Keys : ExpireCount(k)
    \/ \E k \in Keys : ExpireLock(k)

SpecStore == Init /\ [][OldNext]_vars

\* ------------------------------------------------------------------------
\* Second generation: the scripts ProxyRedisClient calls
\* (the Lua files are not in the tree; modelled from the design document)
\* ------------------------------------------------------------------------
\* route step of the admission script; hg: the global lock was just taken
RouteStep(K, lock_token, hg) ==
    IF K.rlimit = Nil THEN
        IF K.lock[RKey] # NoTok
        THEN [s |-> K, data |-> IF hg THEN <<4>> ELSE <<3>>]
        ELSE [s |-> [K EXCEPT !.lock[RKey] = lock_token],
              data |-> <<5, IF hg THEN 1 ELSE 0, 1>>]
    ELSE IF K.rremaining = 0 THEN
        IF hg
        THEN [s |-> K, data |-> <<5, 1, 0>>]
        ELSE [s |-> [K EXCEPT !.gcount = @ - 1], data |-> <<2, K.rlimit>>]
    ELSE [s |-> [K EXCEPT !.rremaining = @ - 1],
          data |-> <<5, IF hg THEN 1 ELSE 0, 0>>]

\* returns [s |-> store after, data |-> <<status tag, payload...>>]
check_global_and_route_rl(K, lock_token) ==
    IF K.glimit = Nil THEN
        IF K.lock[GKey] # NoTok
        THEN [s |-> K, data |-> <<1>>]
        ELSE RouteStep([K EXCEPT !.lock[GKey] = lock_token], lock_token, TRUE)
    ELSE
        LET K1 == [K EXCEPT !.gcount = @ + 1] IN
        IF K1.gcount > K.glimit
        THEN [s |-> K1, data |-> <<0, K.glimit>>]
        ELSE RouteStep(K1, lock_token, FALSE)

\* compare-token-and-set of the limit record, DEL of the lock, PUBLISH
unlock_global(K, lock_token, ratelimit) ==
    IF K.lock[GKey] = lock_token /\ lock_token # NoTok
    THEN [s |-> [K EXCEPT !.glimit = ratelimit, !.lock[GKey] = NoTok],
          ret |-> TRUE, pub |-> <<GKey>>]
    ELSE [s |-> K, ret |-> FALSE, pub |-> <<>>]

\* with a lock token: compare-token-and-set of the route record, DEL of the
\* lock, PUBLISH; without one (lock_token.unwrap_or_default()): TTLs only
set_route_expiry(K, lock_token, limit, remaining) ==
    IF K.lock[RKey] = lock_token /\ lock_token # NoTok
    THEN [s |-> [K EXCEPT !.rlimit = limit, !.rremaining = remaining,
                          !.lock[RKey] = NoTok],
          ret |-> TRUE, pub |-> <<RKey>>]
    ELSE [s |-> K, ret |-> FALSE, pub |-> <<>>]

\* PUBLISH unlock <key>: every replica's subscriber receives the message
Publish(box, msgs) == [p \in Procs |-> box[p] \o msgs]

\* ------------------------------------------------------------------------
\* Second generation: RatelimitStatus::from
\* ------------------------------------------------------------------------
Status(kind, hg, hr, limit) ==
    [kind |-> kind, holds_global_lock |-> hg, holds_route_lock |-> hr, limit |-> limit]

ratelimit_check_is_overloaded(time_taken) == time_taken > 50

OverloadLimitReached(count) == count = 3

\* (variant: the time taken is looked at before the slice boundary)
RatelimitStatus_from_overload_first(overload_count_, start_ms, check_time, data) ==
    IF ratelimit_check_is_overloaded(check_time)
    THEN IF OverloadLimitReached(overload_count_)
         THEN Status("ProxyOverloaded", FALSE, FALSE, 0)
         ELSE Status("RetryProxyOverloaded", FALSE, FALSE, 0)
    ELSE IF start_ms + check_time >= 1000
    THEN Status("GlobalRatelimitDrifted", FALSE, FALSE, 0)
    ELSE CASE data[1] = 0 -> Status("GlobalRatelimited", FALSE, FALSE, data[2])
           [] data[1] = 1 -> Status("AwaitingGlobalLock", FALSE, FALSE, 0)
           [] data[1] = 2 -> Status("RouteRatelimited", FALSE, FALSE, data[2])
           [] data[1] = 3 -> Status("AwaitingRouteLock", FALSE, FALSE, 0)
           [] data[1] = 4 -> Status("HoldingGlobalLockAwaitingRouteLock", FALSE, FALSE, 0)
           [] data[1] = 5 -> Status("Allowed", data[2] = 1, data[3] = 1, 0)

\* check_started_at_timestamp is given by its milliseconds within the
\* second, so that global_slice_reset_at is 1000
RatelimitStatus_from(overload_count_, start_ms, check_time, data) ==
    LET global_slice_reset_at == 1000
        curr_time == start_ms + check_time
    IN
    IF curr_time >= global_slice_reset_at
    THEN Status("GlobalRatelimitDrifted", FALSE, FALSE, 0)
    ELSE IF ratelimit_check_is_overloaded(check_time)
    THEN IF OverloadLimitReached(overload_count_)
         THEN Status("ProxyOverloaded", FALSE, FALSE, 0)
         ELSE Status("RetryProxyOverloaded", FALSE, FALSE, 0)
    ELSE CASE data[1] = 0 -> Status("GlobalRatelimited", FALSE, FALSE, data[2])
           [] data[1] = 1 -> Status("AwaitingGlobalLock", FALSE, FALSE, 0)
           [] data[1] = 2 -> Status("RouteRatelimited", FALSE, FALSE, data[2])
           [] data[1] = 3 -> Status("AwaitingRouteLock", FALSE, FALSE, 0)
           [] data[1] = 4 -> Status("HoldingGlobalLockAwaitingRouteLock", FALSE, FALSE, 0)
           [] data[1] = 5 -> Status("Allowed", data[2] = 1, data[3] = 1, 0)

\* ------------------------------------------------------------------------
\* Second generation: Proxy::check_ratelimits
\* ------------------------------------------------------------------------
\* (variant: every allowed request fetches the global limit)
PcAfterAlwaysFetch(status) ==
    CASE status.kind = "ProxyOverloaded" -> "overloaded"
      [] status.kind = "GlobalRatelimited" -> "global_429"
      [] status.kind = "RouteRatelimited" -> "route_429"
      [] status.kind = "Allowed" ->
             (IF status.holds_route_lock THEN "fetch_then_pass" ELSE "fetch_then_nopass")
      [] status.kind \in {"AwaitingGlobalLock", "AwaitingRouteLock",
                          "HoldingGlobalLockAwaitingRouteLock"} -> "join"
      [] OTHER -> "check"

\* where the loop is after the match on the status
PcAfter(status) ==
    CASE status.kind = "ProxyOverloaded" -> "overloaded"
      [] status.kind = "GlobalRatelimited" -> "global_429"
      [] status.kind = "RouteRatelimited" -> "route_429"
      [] status.kind = "Allowed" ->
             IF status.holds_global_lock
             THEN (IF status.holds_route_lock THEN "fetch_then_pass"
                                              ELSE "fetch_then_nopass")
             ELSE "allowed"
      [] status.kind \in {"AwaitingGlobalLock", "AwaitingRouteLock",
                          "HoldingGlobalLockAwaitingRouteLock"} -> "join"
      [] OTHER -> "check"

\* one round trip of the admission script and the match on its status
Check(r) ==
    /\ pc[r] = "check"
    /\ trips < MaxAttempts
    /\ \E start_ms \in {0, 995}, check_time \in {10, 51} :
         LET lock_token == <<r, trips + 1>>
             res == check_global_and_route_rl(kv, lock_token)
             status == RatelimitStatus_from(overload_count[r], start_ms,
                                            check_time, res.data)
             drifted == status.kind = "GlobalRatelimitDrifted"
             keep == \/ status.kind = "HoldingGlobalLockAwaitingRouteLock"
                     \/ (status.kind = "Allowed"
                           /\ (status.holds_global_lock \/ status.holds_route_lock))
         IN  /\ kv' = IF drifted THEN [res.s EXCEPT !.gcount = 0] ELSE res.s
             /\ pc' = [pc EXCEPT ![r] = PcAfter(status)]
             /\ tok' = [tok EXCEPT ![r] = IF keep THEN lock_token ELSE NoTok]
             /\ overload_count' =
                  [overload_count EXCEPT ![r] =
                     IF status.kind = "RetryProxyOverloaded" THEN @ + 1 ELSE @]
             /\ fetch' = [fetch EXCEPT ![r] =
                     IF \/ status.kind = "HoldingGlobalLockAwaitingRouteLock"
                        \/ (status.kind = "Allowed" /\ status.holds_global_lock)
                     THEN "todo" ELSE "none"]
             /\ wait' = [wait EXCEPT ![r] =
                     IF PcAfter(status) = "join" THEN "reg" ELSE "none"]
             /\ wkey' = [wkey EXCEPT ![r] =
                     IF PcAfter(status) = "join" /\ status.kind # "AwaitingGlobalLock"
                     THEN RKey ELSE GKey]
             /\ slow' = [slow EXCEPT ![r] =
                     IF drifted THEN @
                     ELSE IF ratelimit_check_is_overloaded(check_time) THEN @ + 1
                     ELSE 0]
    /\ trips' = trips + 1
    /\ UNCHANGED <<sig, chan, inbox, regno, ret>>
    /\ UNCHANGED <<ovars, fvars>>

\* (variant: the loop continues when the first of the futures has completed)
JoinPcEither(r, fetch1, wait1) ==
    IF pc[r] = "join" /\ (fetch1 = "done" \/ wait1 = "done")
    THEN "check" ELSE pc[r]

\* try_join!(fetch_global_ratelimit, await_lock) / await_lock alone: the
\* loop continues when every future of the retry cause has completed
JoinPc(r, fetch1, wait1) ==
    IF pc[r] = "join" /\ fetch1 \in {"none", "done"} /\ wait1 = "done"
    THEN "check" ELSE pc[r]

JoinFetch(r, fetch1, wait1) ==
    IF JoinPc(r, fetch1, wait1) = "check" THEN "none" ELSE fetch1

JoinWait(r, fetch1, wait1) ==
    IF JoinPc(r, fetch1, wait1) = "check" THEN "none" ELSE wait1

JoinKey(r, fetch1, wait1) ==
    IF JoinPc(r, fetch1, wait1) = "check" THEN GKey ELSE wkey[r]

\* (variant: after a release that the store refused the request starts over)
fetch_global_ratelimit_starting_over(r) ==
    /\ pc[r] \in {"join", "fetch_then_pass", "fetch_then_nopass"}
    /\ fetch[r] = "todo"
    /\ \E ratelimit \in FetchedLimits :
         LET res == unlock_global(kv, tok[r], ratelimit)
             goes_on == res.ret /\ pc[r] # "join"
         IN  /\ kv' = res.s
             /\ inbox' = Publish(inbox, res.pub)
             /\ pc' = [pc EXCEPT ![r] = IF goes_on THEN "allowed" ELSE "check"]
             /\ tok' = [tok EXCEPT ![r] =
                          IF goes_on /\ pc[r] = "fetch_then_pass" THEN @ ELSE NoTok]
    /\ fetch' = [fetch EXCEPT ![r] = "none"]
    /\ wait' = [wait EXCEPT ![r] = "none"]
    /\ wkey' = [wkey EXCEPT ![r] = GKey]
    /\ UNCHANGED <<trips, overload_count, sig, chan, slow, regno, ret>>
    /\ UNCHANGED <<ovars, fvars>>

\* fetch_global_ratelimit: the limit is found (or defaulted) and handed to
\* unlock_global with the lock token of the round trip
fetch_global_ratelimit(r) ==
    /\ pc[r] \in {"join", "fetch_then_pass", "fetch_then_nopass"}
    /\ fetch[r] = "todo"
    /\ \E ratelimit \in FetchedLimits :
         LET res == unlock_global(kv, tok[r], ratelimit)
         IN  /\ kv' = res.s
             /\ inbox' = Publish(inbox, res.pub)
    /\ pc' = [pc EXCEPT ![r] =
                IF pc[r] = "join" THEN JoinPc(r, "done", wait[r]) ELSE "allowed"]
    /\ fetch' = [fetch EXCEPT ![r] =
                IF pc[r] = "join" THEN JoinFetch(r, "done", wait[r]) ELSE "none"]
    /\ wait' = [wait EXCEPT ![r] =
                IF pc[r] = "join" THEN JoinWait(r, "done", wait[r]) ELSE @]
    /\ wkey' = [wkey EXCEPT ![r] =
                IF pc[r] = "join" THEN JoinKey(r, "done", wait[r]) ELSE @]
    /\ tok' = [tok EXCEPT ![r] = IF pc[r] = "fetch_then_pass" THEN @ ELSE NoTok]
    /\ UNCHANGED <<trips, overload_count, sig, chan, slow, regno, ret>>
    /\ UNCHANGED <<ovars, fvars>>

\* ------------------------------------------------------------------------
\* Second generation: the pending-waiter table of ProxyRedisClient
\* ------------------------------------------------------------------------
HasChannel(p, key) == key \in DOMAIN chan[p]

Insert(m, key, q) == [x \in (DOMAIN m) \cup {key} |-> IF x = key THEN q ELSE m[x]]

Remove(m, key) == [x \in (DOMAIN m) \ {key} |-> m[x]]

\* (variant: the new sender goes to the front of the queue)
push_front(q, tx) == <<tx>> \o q

\* pending_clients.push(tx)
push(q, tx) == Append(q, tx)

\* (variant: a sender is never seen as closed)
is_closed_never(w) == FALSE

\* tx.is_closed(): the receiver of the waiter has been dropped
is_closed(w) == wait[w] # "waiting"

\* (variant: nothing is purged)
purge_none(q) == q

\* while let Some(index) = position(|tx| tx.is_closed()) { remove(index) }
purge_closed(q) == SelectSeq(q, LAMBDA w : ~is_closed(w))

\* (variant: only the first sender is sent to)
drain_first(q) == IF q = <<>> THEN q ELSE <<Head(q)>>

\* for tx in pending_clients.drain(..): the senders in the order sent to
drain(q) == q

\* the registration number of the latest waiter still waiting
Max(S) == CHOOSE x \in S : \A y \in S : y <= x

LastRegno == Max({0} \cup {regno[w] : w \in {x \in Reqs : wait[x] = "waiting"}})

\* redis.await_lock up to rx.await: the sender is pushed to the channel of
\* the key, which is inserted when missing
await_lock_register(r) ==
    /\ pc[r] = "join"
    /\ wait[r] = "reg"
    /\ LET p == ProcOf(r)
           key == wkey[r]
       IN  chan' = [chan EXCEPT ![p] =
                      IF HasChannel(p, key)
                      THEN Insert(@, key, push(@[key], r))
                      ELSE Insert(@, key, <<r>>)]
    /\ wait' = [wait EXCEPT ![r] = "waiting"]
    /\ regno' = [regno EXCEPT ![r] = LastRegno + 1]
    /\ UNCHANGED <<kv, pc, tok, trips, overload_count, fetch, wkey, sig, inbox, slow, ret>>
    /\ UNCHANGED <<ovars, fvars>>

\* select!: Ok(_) = redis.await_lock(bucket) completes
await_lock_released(r) ==
    /\ pc[r] = "join"
    /\ wait[r] = "waiting"
    /\ sig[r]
    /\ sig' = [sig EXCEPT ![r] = FALSE]
    /\ regno' = [regno EXCEPT ![r] = 0]
    /\ pc' = [pc EXCEPT ![r] = JoinPc(r, fetch[r], "done")]
    /\ fetch' = [fetch EXCEPT ![r] = JoinFetch(r, fetch[r], "done")]
    /\ wait' = [wait EXCEPT ![r] = JoinWait(r, fetch[r], "done")]
    /\ wkey' = [wkey EXCEPT ![r] = JoinKey(r, fetch[r], "done")]
    /\ UNCHANGED <<kv, tok, trips, overload_count, chan, inbox, slow, ret>>
    /\ UNCHANGED <<ovars, fvars>>

\* select!: sleep(lock_timeout) completes; the receiver is dropped
await_lock_expired(r) ==
    /\ pc[r] = "join"
    /\ wait[r] = "waiting"
    /\ sig' = [sig EXCEPT ![r] = FALSE]
    /\ wait' = [wait EXCEPT ![r] = "cleanup"]
    /\ regno' = [regno EXCEPT ![r] = 0]
    /\ UNCHANGED <<kv, pc, tok, trips, overload_count, fetch, wkey, chan, inbox, slow, ret>>
    /\ UNCHANGED <<ovars, fvars>>

\* cleanup_pending_locks, first half: closed senders are removed
cleanup_pending_locks(r) ==
    /\ pc[r] = "join"
    /\ wait[r] = "cleanup"
    /\ LET p == ProcOf(r)
           key == wkey[r]
           q == IF HasChannel(p, key) THEN purge_closed(chan[p][key]) ELSE <<>>
           emptied == HasChannel(p, key) /\ Len(q) = 0
           wait1 == IF emptied THEN "emptied" ELSE "done"
       IN  /\ chan' = [chan EXCEPT ![p] =
                         IF HasChannel(p, key) THEN Insert(@, key, q) ELSE @]
           /\ pc' = [pc EXCEPT ![r] = JoinPc(r, fetch[r], wait1)]
           /\ fetch' = [fetch EXCEPT ![r] = JoinFetch(r, fetch[r], wait1)]
           /\ wait' = [wait EXCEPT ![r] = JoinWait(r, fetch[r], wait1)]
           /\ wkey' = [wkey EXCEPT ![r] = JoinKey(r, fetch[r], wait1)]
    /\ UNCHANGED <<kv, tok, trips, overload_count, sig, inbox, slow, regno, ret>>
    /\ UNCHANGED <<ovars, fvars>>

\* cleanup_pending_locks, second half (if emptied): under the write lock the
\* channel is removed when it is still empty
cleanup_pending_locks_emptied(r) ==
    /\ pc[r] = "join"
    /\ wait[r] = "emptied"
    /\ LET p == ProcOf(r)
           key == wkey[r]
       IN  chan' = [chan EXCEPT ![p] =
                      IF HasChannel(p, key) /\ Len(@[key]) = 0
                      THEN Remove(@, key) ELSE @]
    /\ pc' = [pc EXCEPT ![r] = JoinPc(r, fetch[r], "done")]
    /\ fetch' = [fetch EXCEPT ![r] = JoinFetch(r, fetch[r], "done")]
    /\ wait' = [wait EXCEPT ![r] = JoinWait(r, fetch[r], "done")]
    /\ wkey' = [wkey EXCEPT ![r] = JoinKey(r, fetch[r], "done")]
    /\ UNCHANGED <<kv, tok, trips, overload_count, sig, inbox, slow, regno, ret>>
    /\ UNCHANGED <<ovars, fvars>>

\* the subscriber of replica p takes the next unlock message: release_lock
release_lock(p) ==
    /\ inbox[p] # <<>>
    /\ LET key == Head(inbox[p])
           sent == IF HasChannel(p, key) THEN drain(chan[p][key]) ELSE <<>>
           ok == SelectSeq(sent, LAMBDA w : ~is_closed(w))
       IN  /\ chan' = [chan EXCEPT ![p] = Remove(@, key)]
           /\ sig' = [w \in Reqs |->
                        IF \E i \in 1..Len(ok) : ok[i] = w THEN TRUE ELSE sig[w]]
    /\ inbox' = [inbox EXCEPT ![p] = Tail(@)]
    /\ UNCHANGED <<kv, pc, tok, trips, overload_count, fetch, wait, wkey, slow, regno, ret>>
    /\ UNCHANGED <<ovars, fvars>>

\* ------------------------------------------------------------------------
\* Second generation: after admission
\* ------------------------------------------------------------------------
\* (variant: the script is given the limit in place of the remaining)
update_ratelimits_limit(r) ==
    /\ pc[r] = "allowed"
    /\ \E limit \in HeaderLimits :
         \E remaining \in 0..limit :
           LET res == set_route_expiry(kv, tok[r], limit, limit)
           IN  /\ kv' = res.s
               /\ inbox' = Publish(inbox, res.pub)
               /\ ret' = <<"set_route_expiry", <<res.ret, remaining>>>>
    /\ pc' = [pc EXCEPT ![r] = "done"]
    /\ tok' = [tok EXCEPT ![r] = NoTok]
    /\ UNCHANGED <<trips, overload_count, fetch, wait, wkey, sig, chan, slow, regno>>
    /\ UNCHANGED <<ovars, fvars>>

\* the upstream response came: update_ratelimits spawns set_route_expiry
\* with the lock token of the admission, if it holds the route lock
update_ratelimits(r) ==
    /\ pc[r] = "allowed"
    /\ \E limit \in HeaderLimits :
         \E remaining \in 0..limit :
           LET res == set_route_expiry(kv, tok[r], limit, remaining)
           IN  /\ kv' = res.s
               /\ inbox' = Publish(inbox, res.pub)
               /\ ret' = <<"set_route_expiry", <<res.ret, remaining>>>>
    /\ pc' = [pc EXCEPT ![r] = "done"]
    /\ tok' = [tok EXCEPT ![r] = NoTok]
    /\ UNCHANGED <<trips, overload_count, fetch, wait, wkey, sig, chan, slow, regno>>
    /\ UNCHANGED <<ovars, fvars>>

\* the upstream request fails: nothing is written back
UpstreamError(r) ==
    /\ pc[r] = "allowed"
    /\ pc' = [pc EXCEPT ![r] = "failed"]
    /\ UNCHANGED <<kv, tok, trips, overload_count, fetch, wait, wkey, sig, chan, inbox, slow, regno, ret>>
    /\ UNCHANGED <<ovars, fvars>>

\* EX 5 of a lock key runs out
LockExpires(k) ==
    /\ kv.lock[k] # NoTok
    /\ kv' = [kv EXCEPT !.lock[k] = NoTok]
    /\ UNCHANGED <<pc, tok, trips, overload_count, fetch, wait, wkey, sig, chan, inbox, slow, regno, ret>>
    /\ UNCHANGED <<ovars, fvars>>

\* the next one-second slice begins: its counter key is a new one
NextSlice ==
    /\ kv.gcount > 0
    /\ kv' = [kv EXCEPT !.gcount = 0]
    /\ UNCHANGED <<pc, tok, trips, overload_count, fetch, wait, wkey, sig, chan, inbox, slow, regno, ret>>
    /\ UNCHANGED <<ovars, fvars>>

Next ==
    \/ \E r \in Reqs : Check(r)
    \/ \E r \in Reqs : fetch_global_ratelimit(r)
    \/ \E r \in Reqs : await_lock_register(r)
    \/ \E r \in Reqs : await_lock_released(r)
    \/ \E r \in Reqs : await_lock_expired(r)
    \/ \E r \in Reqs : cleanup_pending_locks(r)
    \/ \E r \in Reqs : cleanup_pending_locks_emptied(r)
    \/ \E p \in Procs : release_lock(p)
    \/ \E r \in Reqs : update_ratelimits(r)
    \/ \E r \in Reqs : UpstreamError(r)
    \/ \E k \in Keys : LockExpires(k)
    \/ NextSlice

Spec == Init /\ [][Next]_vars

\* ------------------------------------------------------------------------
\* Properties of the store scripts (SpecStore)
\* ------------------------------------------------------------------------
\* C1: for a stored global limit L, the requests let through while counted
\* against one global counter key (one slice) never number more than L,
\* whatever the interleaving of the admission checks
C1_AllowedPerSliceWithinLimit ==
    \A e \in 0..MaxSlice :
        admitted[e] > 0 =>
            /\ store.rec[GKey] # Nil
            /\ admitted[e] <= store.rec[GKey]

\* a slice on which a request was let through and another was refused
C1_Witness ==
    /\ \E e \in 0..MaxSlice : admitted[e] > 0
    /\ \E r \in OldReqs : opc[r] = "global_ratelimited"

\* the request r makes a script call that releases a lock on key k
OldReleases(r, k) ==
    \/ k = GKey /\ opc[r] = "fetch_global" /\ opc'[r] = "check"
    \/ k = RKey /\ opc[r] = "ok_locked" /\ opc'[r] = "done"

\* C2: a lock is granted only when the record is missing and no lock is
\* stored; at most one token holds the lock of a key; a record is written
\* only by the holder of the stored lock, in the step that deletes the lock,
\* and a holder whose lock is no longer the stored one writes nothing
C2_LockGrantAndSingleWriter ==
    [][\A k \in Keys :
         /\ (store'.lock[k] # store.lock[k] /\ store'.lock[k] # NoTok)
               => (store.rec[k] = Nil /\ store.lock[k] = NoTok)
         /\ Cardinality({r \in OldReqs : otoken[r] # NoTok
                                          /\ otoken[r] = store.lock[k]}) <= 1
         /\ store'.rec[k] # store.rec[k]
               => \E r \in OldReqs :
                     /\ OldReleases(r, k)
                     /\ otoken[r] # NoTok
                     /\ otoken[r] = store.lock[k]
                     /\ store'.lock[k] = NoTok
         /\ \A r \in OldReqs :
               (OldReleases(r, k) /\ otoken[r] # store.lock[k])
                  => (store'.rec[k] = store.rec[k] /\ ret'[2] = FALSE)
      ]_vars

\* the global lock of one request expired, another request acquired it and
\* wrote the record, and the first request's release was refused
C2_Witness ==
    /\ ret = <<"unlock_global_bucket", FALSE>>
    /\ store.rec[GKey] # Nil

\* the request r makes the route release/update call with a token that is
\* not the stored route lock (another token, or no lock stored)
StaleRouteRelease(r) ==
    /\ opc[r] = "ok_locked"
    /\ opc'[r] = "done"
    /\ otoken[r] # store.lock[RKey]

\* C3 as stated: with a token that is not the stored route lock the
\* release/update script returns false and changes no key of the store
C3_StaleReleaseChangesNothing ==
    [][\A r \in OldReqs :
         StaleRouteRelease(r) => (ret'[2] = FALSE /\ store' = store)
      ]_vars

\* C3 amended: the script writes the route record and deletes the lock only
\* when the token is the stored route lock; otherwise it returns false and
\* leaves the records, the locks and the route counter as they were (the
\* script of redis.rs still sets the expiry of the global counter)
C3_StaleReleaseKeepsRoute ==
    [][\A r \in OldReqs :
         /\ StaleRouteRelease(r)
               => /\ ret'[2] = FALSE
                  /\ store'.rec = store.rec
                  /\ store'.lock = store.lock
                  /\ store'.cnt[RKey] = store.cnt[RKey]
                  /\ store'.exp[RKey] = store.exp[RKey]
         /\ (opc[r] = "ok_locked" /\ opc'[r] = "done"
                /\ otoken[r] = store.lock[RKey])
               => /\ ret'[2] = TRUE
                  /\ store'.rec[RKey] \in RouteLimits
                  /\ store'.lock[RKey] = NoTok
      ]_vars

\* a route release was refused after another holder had written the record
C3_Witness ==
    /\ ret[1] \in {"unlock_route", "unlock_ratelimit"}
    /\ ret[2] = FALSE
    /\ store.rec[RKey] # Nil

\* C5: an admission that passes the global step and is denied by the route
\* record returns the route denial and leaves the global counter at the
\* value it had before the script
C5_RouteDenialKeepsGlobalCount ==
    [][\A r \in OldReqs :
         (opc[r] = "check" /\ opc'[r] = "route_ratelimited")
            => /\ ret' = <<"check", <<1, 0>>>>
               /\ store'.cnt[GKey] = store.cnt[GKey]
      ]_vars

\* a request was denied by the route record
C5_Witness ==
    /\ ret = <<"check", <<1, 0>>>>
    /\ \E r \in OldReqs : opc[r] = "route_ratelimited"

\* C6: with the global limit L stored, an admission is refused by the
\* global step only if the incremented counter exceeds L (so the first L
\* admissions of a slice pass and the next one is refused)
C6_GlobalDeniedOnlyAboveLimit ==
    [][\A r \in OldReqs :
         (opc[r] = "check" /\ opc'[r] = "global_ratelimited")
            => store'.cnt[GKey] > store.rec[GKey]
      ]_vars


\* ------------------------------------------------------------------------
\* Properties of the admission controller and the waiter table (Spec)
\* ------------------------------------------------------------------------

\* C4: every lock the admission script grants to a round trip of a request
\* is kept by that request, which goes on to release it with the token of
\* that round trip
C4_GrantedLockIsReleasedByHolder ==
    [][\A r \in Reqs : \A k \in Keys :
         (kv'.lock[k] # kv.lock[k] /\ kv'.lock[k][1] = r)
           => /\ tok'[r] = kv'.lock[k]
              /\ pc'[r] \in {"join", "fetch_then_pass", "fetch_then_nopass", "allowed"}]_vars

\* a release script wrote the record of key k in this step
Released(k) ==
    IF k = GKey THEN kv.glimit = Nil /\ kv'.glimit # Nil
                ELSE kv.rlimit = Nil /\ kv'.rlimit # Nil

\* the subscriber of replica p handled its next message in this step
Handled(p) == inbox[p] # <<>> /\ inbox'[p] = Tail(inbox[p])

WaitsFor(w, p, key) == ProcOf(w) = p /\ wkey[w] = key /\ wait[w] = "waiting"

InQueue(w, q) == \E i \in 1..Len(q) : q[i] = w

Live(q) == SelectSeq(q, LAMBDA w : ~is_closed(w))

InRegistrationOrder(q) ==
    \A i \in 1..Len(q) : \A j \in 1..Len(q) : i < j => regno[q[i]] < regno[q[j]]

\* C9: handling an unlock message, a replica sends to the waiters of the
\* key in the order in which they registered
C9_SignalledInRegistrationOrder ==
    [][\A p \in Procs :
         (Handled(p) /\ HasChannel(p, Head(inbox[p])))
           => InRegistrationOrder(Live(drain(chan[p][Head(inbox[p])])))]_vars

\* two waiters of one key on one replica have both been signalled
C9_Witness ==
    \E w1 \in Reqs : \E w2 \in Reqs :
        /\ ProcOf(w1) = ProcOf(w2)
        /\ wkey[w1] = wkey[w2]
        /\ wait[w1] = "waiting" /\ wait[w2] = "waiting"
        /\ regno[w1] < regno[w2]
        /\ sig[w1] /\ sig[w2]

\* C10: once three consecutive round trips of a request took more than
\* 50 ms, the request has ended with ProxyOverloaded
C10_ThirdOverloadEndsRequest ==
    \A r \in Reqs : slow[r] >= 3 => pc[r] = "overloaded"


\* ------------------------------------------------------------------------
\* Responses the proxy builds itself (responses.rs)
\* ------------------------------------------------------------------------
\* (variant: the builder sets no header)
plain_response_builder == [sent_by_proxy |-> FALSE]

\* Response::builder().header("x-sent-by-proxy", "true")
proxy_response_builder == [sent_by_proxy |-> TRUE]

ratelimited == [status |-> 429, sent_by_proxy |-> proxy_response_builder.sent_by_proxy]

overloaded == [status |-> 503, sent_by_proxy |-> proxy_response_builder.sent_by_proxy]

\* the exits of check_ratelimits that carry a response: Ok(Err(response))
Denied == {"global_429", "route_429", "overloaded"}

\* the response check_ratelimits returns at such an exit
Answer(r) == IF pc[r] = "overloaded" THEN overloaded ELSE ratelimited

\* the request has been handed to the upstream
Dispatched(r) == pc[r] \in {"done", "failed"}

\* C11: a request whose admission ended in GlobalRatelimited,
\* RouteRatelimited or ProxyOverloaded carries the proxy's own response
\* (429, 429, 503, each with x-sent-by-proxy), stays at that exit and is
\* never handed to the upstream; only an allowed request is
C11_DeniedIsAnsweredByProxy ==
    [][\A r \in Reqs :
         /\ pc'[r] \in Denied =>
              /\ Answer(r)'.sent_by_proxy
              /\ Answer(r)'.status = (IF pc'[r] = "overloaded" THEN 503 ELSE 429)
              /\ ~Dispatched(r)'
         /\ pc[r] \in Denied => pc'[r] = pc[r]
         /\ (Dispatched(r)' /\ ~Dispatched(r)) => pc[r] = "allowed"
      ]_vars

\* one request was refused on the global limit after another had been
\* forwarded
C11_Witness ==
    \E r1 \in Reqs : \E r2 \in Reqs :
        pc[r1] = "global_429" /\ pc[r2] = "done"


\* ------------------------------------------------------------------------
\* Functions applied on their own (SpecFn)
\* ------------------------------------------------------------------------
\* check_started_at_timestamp, in ms since the epoch
Timestamps == {0, 1, 999, 1000, 1499, 1949, 1999, 2000}

\* check_started_at.elapsed().as_millis()
Elapsed == {0, 1, 50, 51, 999, 1000}

\* replies of the admission script
Replies == {<<0, 1>>, <<1>>, <<5, 0, 0>>}

\* (check_started_at_timestamp.as_secs() + 1) as u128 * 1000
global_slice_reset_at(ts) == ((ts \div 1000) + 1) * 1000

\* check_started_at_timestamp.as_millis() + check_time
curr_time(ts, check_time) == ts + check_time

\* (variant: the time left is counted from the start of the round trip)
reset_after_of_start(ts, check_time) == global_slice_reset_at(ts) - ts

\* (global_slice_reset_at - curr_time) as u64
reset_after(ts, check_time) == global_slice_reset_at(ts) - curr_time(ts, check_time)

\* RatelimitStatus::from with the fields of GlobalRatelimited
RatelimitStatus_from_full(count, ts, check_time, data) ==
    LET status == RatelimitStatus_from(count, ts % 1000, check_time, data)
        global == status.kind = "GlobalRatelimited"
    IN  [kind |-> status.kind,
         limit |-> status.limit,
         reset_at |-> IF global THEN global_slice_reset_at(ts) ELSE 0,
         reset_after |-> IF global THEN reset_after(ts, check_time) ELSE 0]

ApplyStatusFrom ==
    /\ \E count \in 0..3 : \E ts \in Timestamps : \E check_time \in Elapsed : \E data \in Replies :
         /\ call' = <<"RatelimitStatus::from", count, ts, check_time, data>>
         /\ result' = RatelimitStatus_from_full(count, ts, check_time, data)
    /\ UNCHANGED <<ovars, nvars, ret, client, loop, table>>

\* ------------------------------------------------------------------------
\* Proxy::update_ratelimits: from the response's headers to the script call
\* ------------------------------------------------------------------------
\* a header value is the sequence of its characters; Absent: no such header
Absent == <<"absent">>

\* str::parse::<uN>() of a digit string (a sign is not modelled)
RECURSIVE ParseDigits(_)
ParseDigits(t) ==
    LET DigitVal(c) ==
            CASE c = "0" -> 0 [] c = "1" -> 1 [] c = "2" -> 2 [] c = "3" -> 3
              [] c = "4" -> 4 [] c = "5" -> 5 [] c = "6" -> 6 [] c = "7" -> 7
              [] c = "8" -> 8 [] c = "9" -> 9
    IN  IF t = <<>> THEN 0
        ELSE ParseDigits(SubSeq(t, 1, Len(t) - 1)) * 10 + DigitVal(t[Len(t)])

\* parse() is Ok only for a non-empty string of digits; Nil stands for Err
IsNumber(t) ==
    /\ t # <<>>
    /\ \A i \in 1..Len(t) : t[i] \in {"0", "1", "2", "3", "4", "5", "6", "7", "8", "9"}

\* parse::<u16>()
parse_u16(t) == IF IsNumber(t) /\ ParseDigits(t) <= 65535 THEN ParseDigits(t) ELSE Nil

\* parse::<u64>(): the header values drawn here have at most five digits,
\* far below 2^64, so the width never decides
parse_u64(t) == IF IsNumber(t) THEN ParseDigits(t) ELSE Nil

\* .replace(".", "")
replace_dot(t) == SelectSeq(t, LAMBDA c : c # ".")

\* headers.get("X-RateLimit-Limit") / ("X-RateLimit-Remaining"): None => 0
header_u16(h) == IF h = Absent THEN 0 ELSE parse_u16(h)

\* headers.get("X-RateLimit-Reset") / ("X-RateLimit-Reset-After"): None => 0
header_ms(h) == IF h = Absent THEN 0 ELSE parse_u64(replace_dot(h))

\* values of X-RateLimit-Limit and X-RateLimit-Remaining
CountHeaders == {Absent, <<"5">>}

\* values of X-RateLimit-Reset and X-RateLimit-Reset-After
SecondsHeaders ==
    {Absent, <<"6", "4">>, <<"1", ".", "5">>, <<"0", ".", "2", "5", "0">>,
     <<"1", ".", "2", "3", "4", "5">>}

\* Force 15 minute TTL for interaction routes
bucket_ttl(resource) == IF resource = "Interactions" THEN 15 * 60 * 1000 ELSE 86400000

\* what update_ratelimits does with the headers of a response: unwrap()
\* panics on a value that does not parse; otherwise the task that calls
\* set_route_expiry is spawned with these arguments
update_ratelimits_call(limit_h, remaining_h, reset_h, after_h, lock_token, resource) ==
    LET limit == header_u16(limit_h)
        remaining == header_u16(remaining_h)
        reset_at == header_ms(reset_h)
        reset_after_ == header_ms(after_h)
    IN  IF Nil \in {limit, remaining, reset_at, reset_after_}
        THEN [panicked |-> TRUE, invoked |-> FALSE, args |-> <<>>]
        ELSE [panicked |-> FALSE, invoked |-> TRUE,
              args |-> <<lock_token, limit, remaining, reset_at, reset_after_,
                         bucket_ttl(resource)>>]

ApplyUpdateRatelimits ==
    /\ \E limit_h \in CountHeaders : \E remaining_h \in CountHeaders :
       \E reset_h \in SecondsHeaders : \E after_h \in SecondsHeaders :
       \E lock_token \in {<<1, 1>>} : \E resource \in {"Channels", "Interactions"} :
         /\ call' = <<"update_ratelimits", limit_h, remaining_h, reset_h, after_h, lock_token, resource>>
         /\ result' = update_ratelimits_call(limit_h, remaining_h, reset_h, after_h, lock_token, resource)
    /\ UNCHANGED <<ovars, nvars, ret, client, loop, table>>

\* ------------------------------------------------------------------------
\* DiscordRequestInfo::new and the script Proxy::check_ratelimits calls
\* ------------------------------------------------------------------------
\* BucketInfo::new's results for /api/v10/channels/1/messages,
\* /webhooks/1, /webhooks/1/<token>, /interactions/1/<token>/callback and
\* /oauth2/applications/@me; route_bucket is the sequence of the segments
\* that "/" separates
BucketInfos ==
    {[resource |-> "Channels", route_bucket |-> <<"channels", "1", "messages">>],
     [resource |-> "Webhooks", route_bucket |-> <<"webhooks", "1">>],
     [resource |-> "Webhooks", route_bucket |-> <<"webhooks", "1", "!">>],
     [resource |-> "Interactions", route_bucket |-> <<"interactions", "1", "!", "callback">>],
     [resource |-> "OAuth2", route_bucket |-> <<"oauth2", "applications", "@me">>]}

\* the Authorization header: absent, or <<prefix, first dotted segment>>
AuthHeaders ==
    {Absent, <<"Basic ", "NDI">>, <<"Bot ", "NDI">>, <<"Bot ", "NDM">>, <<"Bot ", "Tm9BdXRo">>}

\* forgiving_decode_to_vec then String::from_utf8, on the segments above
forgiving_decode(b) ==
    CASE b = "NDI" -> "42" [] b = "NDM" -> "43" [] b = "Tm9BdXRo" -> "NoAuth"

DEFAULT_GLOBAL_ID == "NoAuth"

can_ignore_auth(bucket_info) ==
    \/ bucket_info.resource = "Webhooks" /\ Len(bucket_info.route_bucket) # 2
    \/ bucket_info.resource = "OAuth2"
    \/ bucket_info.resource = "Interactions"

\* Result<Option<(String, String)>, ProxyError>: auth = <<>> is None
parse_headers(header, require_auth) ==
    IF header = Absent
    THEN IF require_auth
         THEN [ok |-> TRUE, auth |-> <<>>, error |-> ""]
         ELSE [ok |-> FALSE, auth |-> <<>>, error |-> "Missing Authorization header"]
    ELSE IF header[1] # "Bot "
    THEN [ok |-> FALSE, auth |-> <<>>, error |-> "Invalid Authorization header"]
    ELSE [ok |-> TRUE, auth |-> <<forgiving_decode(header[2]), header>>, error |-> ""]

\* (variant: the identity is not looked at)
uses_global_ratelimit_any_id(resource, global_id) ==
    resource \notin {"Webhooks", "Interactions"}

uses_global_ratelimit(resource, global_id) ==
    resource \notin {"Webhooks", "Interactions"} /\ global_id # DEFAULT_GLOBAL_ID

\* format!("global:{{{}}}", global_id)
global_id_redis_key(global_id) == <<"global:{", global_id, "}">>

route_bucket_redis_key(resource, global_id, route_bucket) ==
    IF uses_global_ratelimit(resource, global_id)
    THEN global_id_redis_key(global_id) \o <<"-route:">> \o route_bucket
    ELSE <<"route:{">> \o route_bucket \o <<"}">>

DiscordRequestInfo_new(bucket_info, header) ==
    LET require_auth == ~can_ignore_auth(bucket_info)
        parsed == parse_headers(header, require_auth)
        global_id == IF parsed.auth # <<>> THEN parsed.auth[1] ELSE DEFAULT_GLOBAL_ID
    IN  IF ~parsed.ok
        THEN [ok |-> FALSE, error |-> <<"InvalidRequest", parsed.error>>]
        ELSE [ok |-> TRUE,
              global_id |-> global_id,
              token |-> IF parsed.auth # <<>> THEN parsed.auth[2] ELSE <<>>,
              global_id_redis_key |-> global_id_redis_key(global_id),
              resource |-> bucket_info.resource,
              uses_global_ratelimit |-> uses_global_ratelimit(bucket_info.resource, global_id),
              route_bucket |-> bucket_info.route_bucket,
              route_bucket_redis_key |->
                  route_bucket_redis_key(bucket_info.resource, global_id, bucket_info.route_bucket),
              require_auth |-> require_auth]

\* the route-only admission script: the shape of the global+route script
\* without its global step (the Lua file is not in the tree)
check_route_rl(K, lock_token) ==
    IF K.rlimit = Nil THEN
        IF K.lock[RKey] # NoTok
        THEN [s |-> K, data |-> <<3>>]
        ELSE [s |-> [K EXCEPT !.lock[RKey] = lock_token], data |-> <<5, 0, 1>>]
    ELSE IF K.rremaining = 0
    THEN [s |-> K, data |-> <<2, K.rlimit>>]
    ELSE [s |-> [K EXCEPT !.rremaining = @ - 1], data |-> <<5, 0, 0>>]

\* the store as one admission round trip may find it
FoundStores ==
    {EmptyKv,
     [EmptyKv EXCEPT !.glimit = 1, !.gcount = 1, !.rlimit = 1, !.rremaining = 1],
     [EmptyKv EXCEPT !.glimit = 1, !.rlimit = 1]}

\* the first round trip of Proxy::check_ratelimits: the script it calls,
\* the keys it hands to it, the store afterwards and the status it reads;
\* check_route_rl is called with the route key alone and no lock token;
\* pass_lock_token is what an Allowed round trip hands to the post-response
\* step (NoTok: None)
first_round_trip(request_info, disable_global_rl, K) ==
    LET use_global_rl == ~disable_global_rl /\ request_info.uses_global_ratelimit
        lock_token == <<1, 1>>
        res == IF use_global_rl
               THEN check_global_and_route_rl(K, lock_token)
               ELSE check_route_rl(K, NoTok)
        status == RatelimitStatus_from(0, 0, 10, res.data)
    IN  [holds_route_lock |-> status.holds_route_lock,
         pass_lock_token |-> IF status.kind = "Allowed" /\ status.holds_route_lock
                             THEN lock_token ELSE NoTok,
         script |-> IF use_global_rl THEN "check_global_and_route_rl" ELSE "check_route_rl",
         keys |-> IF use_global_rl
                  THEN <<request_info.global_id_redis_key, request_info.route_bucket_redis_key>>
                  ELSE <<request_info.route_bucket_redis_key>>,
         after |-> res.s,
         status |-> RatelimitStatus_from(0, 0, 10, res.data).kind]

ApplyRequest ==
    /\ \E bucket_info \in BucketInfos : \E header \in AuthHeaders :
       \E disable_global_rl \in BOOLEAN : \E K \in FoundStores :
         LET request_info == DiscordRequestInfo_new(bucket_info, header) IN
         /\ request_info.ok \/ (~disable_global_rl /\ K = EmptyKv)
         /\ call' = <<"request", bucket_info, header, disable_global_rl, K>>
         /\ result' = [info |-> request_info,
                       trip |-> IF request_info.ok
                                THEN first_round_trip(request_info, disable_global_rl, K)
                                ELSE <<>>]
    /\ UNCHANGED <<ovars, nvars, ret, client, loop, table>>

\* ------------------------------------------------------------------------
\* Proxy::fetch_discord_global_ratelimit: from max_concurrency to the limit
\* ------------------------------------------------------------------------
DEFAULT == 50

LARGE_SHARDING_MINIMUM == 500

LARGE_SHARDING_INTERNAL_SHARD_RL == 25

\* session_start_limit.max_concurrency: u16
MaxConcurrencies == {0, 1, 2, 20, 21, 2621, 2622, 65535}

\* the product is a u16: on overflow a build with overflow checks panics,
\* a build without them keeps the low 16 bits
global_ratelimit(max_concurrency, overflow_checks) ==
    IF max_concurrency > 1
    THEN LET product == max_concurrency * LARGE_SHARDING_INTERNAL_SHARD_RL
             allowed_for_concurrency == product % 65536
         IN  IF product > 65535 /\ overflow_checks
             THEN [panicked |-> TRUE, limit |-> Nil]
             ELSE [panicked |-> FALSE,
                   limit |-> IF allowed_for_concurrency > LARGE_SHARDING_MINIMUM
                             THEN allowed_for_concurrency
                             ELSE LARGE_SHARDING_MINIMUM]
    ELSE [panicked |-> FALSE, limit |-> DEFAULT]

ApplyFetchGlobalRatelimit ==
    /\ \E max_concurrency \in MaxConcurrencies : \E overflow_checks \in BOOLEAN :
         /\ call' = <<"fetch_discord_global_ratelimit", max_concurrency, overflow_checks>>
         /\ result' = global_ratelimit(max_concurrency, overflow_checks)
    /\ UNCHANGED <<ovars, nvars, ret, client, loop, table>>

\* ------------------------------------------------------------------------
\* Proxy::check_ratelimits under the configured strategies
\* ------------------------------------------------------------------------
\* the match on the status of one round trip, with config.global_rl_strategy
\* and config.route_rl_strategy as AppEnvConfig::from_env parsed them: the
\* match reads neither
ApplyMatchStatus ==
    /\ \E global_rl_strategy \in {"Strict", "Loose"} :
       \E route_rl_strategy \in {"Strict", "Loose"} :
       \E data \in {<<1>>, <<3>>, <<4>>, <<5, 0, 0>>} :
         LET status == RatelimitStatus_from(0, 0, 10, data) IN
         /\ call' = <<"match status", global_rl_strategy, route_rl_strategy, data>>
         /\ result' = [kind |-> status.kind, pc |-> PcAfter(status),
                       awaits |-> PcAfter(status) = "join"]
    /\ UNCHANGED <<ovars, nvars, ret, client, loop, table>>

\* ------------------------------------------------------------------------
\* Errors of the coordination store on the request path
\* ------------------------------------------------------------------------
\* (variant: an error of unlock_global is logged like an error of the fetch)
check_ratelimits_logging_unlock(fails_at, data) ==
    LET status == RatelimitStatus_from(0, 0, 10, data) IN
    IF fails_at = "round trip" THEN "Err"
    ELSE CASE PcAfter(status) \in Denied -> "Ok(Err(response))"
           [] PcAfter(status) \in {"check", "join"} -> "continue"
           [] OTHER -> "Ok(Ok(token))"

\* one turn of the loop of check_ratelimits with a store call that fails:
\* the round trip (`.await?`), or unlock_global in fetch_global_ratelimit
\* (`.await?`, passed on by `try_join!(..)?` and by `.await?`); a failure of
\* the fetch from the upstream falls back to 50 and is no error
check_ratelimits(fails_at, data) ==
    LET status == RatelimitStatus_from(0, 0, 10, data)
        fetches == \/ status.kind = "HoldingGlobalLockAwaitingRouteLock"
                   \/ (status.kind = "Allowed" /\ status.holds_global_lock)
    IN
    IF fails_at = "round trip" THEN "Err"
    ELSE IF fetches /\ fails_at = "unlock_global" THEN "Err"
    ELSE CASE PcAfter(status) \in Denied -> "Ok(Err(response))"
           [] PcAfter(status) \in {"check", "join"} -> "continue"
           [] OTHER -> "Ok(Ok(token))"

\* the handler around it: an Err becomes the 500 of the proxy, a denial its
\* own response, and only Ok(Ok(token)) goes to the upstream
proxy_discord_request(outcome) ==
    CASE outcome = "Err" -> [status |-> 500, forwarded |-> FALSE]
      [] outcome = "Ok(Err(response))" -> [status |-> 429, forwarded |-> FALSE]
      [] outcome = "continue" -> [status |-> 0, forwarded |-> FALSE]
      [] outcome = "Ok(Ok(token))" -> [status |-> 200, forwarded |-> TRUE]

ApplyStoreError ==
    /\ \E fails_at \in {"none", "round trip", "discord", "unlock_global"} :
       \E data \in {<<0, 1>>, <<1>>, <<4>>, <<5, 0, 0>>, <<5, 1, 1>>} :
         /\ call' = <<"check_ratelimits", fails_at, data>>
         /\ result' = [outcome |-> check_ratelimits(fails_at, data),
                       response |-> proxy_discord_request(check_ratelimits(fails_at, data)),
                       fetches |-> LET status == RatelimitStatus_from(0, 0, 10, data)
                                   IN  \/ status.kind = "HoldingGlobalLockAwaitingRouteLock"
                                       \/ (status.kind = "Allowed" /\ status.holds_global_lock)]
    /\ UNCHANGED <<ovars, nvars, ret, client, loop, table>>

\* ------------------------------------------------------------------------
\* The response after the post-response update
\* ------------------------------------------------------------------------
\* proxy_request once the upstream has answered: update_ratelimits is
\* called before the response is returned; a panic of its unwrap()s unwinds
\* through the handler, while what set_route_expiry meets in the spawned
\* task (a store error, a lock that has expired) is logged there
ApplyPostResponse ==
    /\ \E limit_h \in {<<"5">>, <<"7", "0", "0", "0", "0">>, <<"x">>} :
       \E task \in {"ok", "store error", "lock expired"} :
         LET update == update_ratelimits_call(limit_h, <<"5">>, <<"6", "4">>, <<"1", ".", "5">>,
                                              <<1, 1>>, "Channels")
         IN  /\ call' = <<"post response", limit_h, task>>
             /\ result' = [panicked |-> update.panicked,
                           response |-> IF update.panicked THEN "none" ELSE "upstream"]
    /\ UNCHANGED <<ovars, nvars, ret, client, loop, table>>

\* ------------------------------------------------------------------------
\* BucketInfo::new: from method and path to the buckets
\* ------------------------------------------------------------------------
\* A path is given by its segments after /api/v<n>/ (path.split("/").skip(3)).
\* A segment is known by what the classifier reads of it: its text, its
\* length, whether all its characters are numeric, for a number its value
\* shifted right by 22 bits (ts) and whether it fits 64 bits, and for a
\* token the id it decodes to when it starts with aW50ZXJhY3Rpb246
\* (interaction: "" when it does not). The clock and ts are in milliseconds.
Paths ==
    LET Word(text) == [text |-> text, len |-> 8, numeric |-> FALSE, ts |-> 0,
                       fits |-> TRUE, interaction |-> ""]
        Number(text, len, ts, fits) == [text |-> text, len |-> len, numeric |-> TRUE,
                                        ts |-> ts, fits |-> fits, interaction |-> ""]
        Token(text, len, id) == [text |-> text, len |-> len, numeric |-> FALSE, ts |-> 0,
                                 fits |-> TRUE, interaction |-> id]
        C == Number("C", 18, 700000000, TRUE)
        Fresh == Number("M5", 19, 1999999995, TRUE)
        Old == Number("M30", 18, 700000000, TRUE)
        Ahead == Number("M+", 19, 2000000050, TRUE)
        Big == Number("M20", 20, 0, FALSE)
        Short == Number("17", 17, 0, TRUE)
    IN  {<<>>,
         <<Word("channels")>>,
         <<Word("channels"), C>>,
         <<Word("channels"), C, Word("messages"), Fresh>>,
         <<Word("channels"), C, Word("messages"), Old>>,
         <<Word("channels"), C, Word("messages"), Old, Word("reactions"), Word("emoji")>>,
         <<Word("guilds"), C, Word("channels")>>,
         <<Word("guilds"), C, Word("members"), Short>>,
         <<Word("guilds"), C, Word("messages"), Fresh>>,
         <<Word("guilds"), C, Word("messages"), Big>>,
         <<Word("guilds"), C, Word("messages"), Ahead>>,
         <<Word("webhooks"), C>>,
         <<Word("webhooks"), C, Token("aW50ZXJhY3Rpb246MTIz", 20, "123")>>,
         <<Word("webhooks"), C, Token("aW50ZXJhY3Rpb246MTIz...", 80, "123")>>,
         <<Word("webhooks"), C, Token("token", 68, "")>>,
         <<Word("interactions")>>,
         <<Word("interactions"), C, Token("token", 200, ""), Word("callback")>>,
         <<Word("interactions"), C, Token("tkn", 3, ""), Word("callback")>>,
         <<Word("invites"), Word("code")>>,
         <<Word("users"), Word("@me")>>}

\* the clock when the request is classified
Nows == {2000000000, 2000000100}

is_snowflake(segment) == 17 < segment.len /\ segment.len < 21 /\ segment.numeric

\* now - timestamp in 64 bits: when the timestamp is ahead of the clock a
\* build with overflow checks panics (Nil) and one without wraps around to
\* a number near 2^64, stood for by 2147483647: far above 14 days
get_snowflake_age_ms(ts, now, overflow_checks) ==
    IF now >= ts THEN now - ts
    ELSE IF overflow_checks THEN Nil
    ELSE 2147483647

\* (variant: the messages of every resource are split by age)
splits_by_age_everywhere(resource, method, previous) ==
    method = "DELETE" /\ previous.text = "messages"

\* the snowflake after messages is looked at for its age
splits_by_age(resource, method, previous) ==
    resource = "Guilds" /\ method = "DELETE" /\ previous.text = "messages"

\* the loop over path_segments[2..]; i is the index of the segment in segs,
\* route and display are the buckets so far as sequences of the pieces
\* that "/" separates
RECURSIVE Segments(_, _, _, _, _, _, _, _)
Segments(resource, method, segs, i, route, display, now, overflow_checks) ==
    IF i > Len(segs) THEN [panicked |-> FALSE, route |-> route, display |-> display]
    ELSE
    LET segment == segs[i]
        next(r, d) == Segments(resource, method, segs, i + 1, r, d, now, overflow_checks)
        stop(r, d) == [panicked |-> FALSE, route |-> r, display |-> d]
    IN
    IF is_snowflake(segment) THEN
        IF splits_by_age(resource, method, segs[i - 1])
        THEN IF ~segment.fits THEN [panicked |-> TRUE, route |-> route, display |-> display]
             ELSE LET message_age_ms == get_snowflake_age_ms(segment.ts, now, overflow_checks) IN
                  IF message_age_ms = Nil
                  THEN [panicked |-> TRUE, route |-> route, display |-> display]
                  ELSE IF message_age_ms > 14 * 24 * 60 * 60 * 1000
                  THEN stop(Append(route, "!14d"), Append(display, "!14d"))
                  ELSE IF message_age_ms < 10
                  THEN stop(Append(route, "!10s"), Append(display, "!10s"))
                  ELSE next(route, display)
        ELSE next(Append(route, "!*"), Append(display, "!*"))
    ELSE IF resource = "Channels" /\ segment.text = "reactions" THEN
        IF method \in {"PUT", "DELETE"}
        THEN stop(route \o <<"reactions", "!modify">>, display \o <<"reactions", "!modify">>)
        ELSE stop(route \o <<"reactions", "!">>, display \o <<"reactions", "!">>)
    ELSE IF segment.len >= 64 THEN
        IF resource = "Webhooks" /\ segment.interaction # ""
        THEN next(Append(route, segment.interaction), Append(display, "!interaction"))
        ELSE next(Append(route, "!"), Append(display, "!"))
    ELSE next(Append(route, segment.text), Append(display, segment.text))

\* Err: Err(InvalidRequest("Invalid Path")); panicked: an index past the
\* end of path_segments, expect() on a number that does not fit, or the
\* subtraction above
BucketInfo_new(method, segs, now, overflow_checks) ==
    LET n == Len(segs)
        resource ==
            IF n = 0 THEN "None"
            ELSE CASE segs[1].text = "channels" -> "Channels"
                   [] segs[1].text = "guilds" -> "Guilds"
                   [] segs[1].text = "webhooks" -> "Webhooks"
                   [] segs[1].text = "invites" -> "Invites"
                   [] segs[1].text = "interactions" -> "Interactions"
                   [] segs[1].text = "oauth2" -> "OAuth2"
                   [] OTHER -> "None"
        done(b) == [ok |-> TRUE, panicked |-> FALSE, resource |-> resource,
                    route |-> b, display |-> b]
        panic == [ok |-> FALSE, panicked |-> TRUE, resource |-> resource,
                  route |-> <<>>, display |-> <<>>]
        rest(b) ==
            IF n <= 2 THEN done(b)
            ELSE LET w == Segments(resource, method, segs, 3, b, b, now, overflow_checks)
                 IN  [ok |-> ~w.panicked, panicked |-> w.panicked, resource |-> resource,
                      route |-> w.route, display |-> w.display]
    IN
    IF n = 0 THEN [ok |-> FALSE, panicked |-> FALSE, resource |-> resource,
                   route |-> <<>>, display |-> <<>>]
    ELSE CASE resource = "Invites" -> rest(<<"invites", "!">>)
           [] resource = "Channels" ->
                  IF n = 2 THEN done(<<"channels", "!">>)
                  ELSE IF n < 2 THEN panic
                  ELSE rest(<<"channels", segs[2].text>>)
           [] resource = "Guilds" ->
                  IF n = 3 /\ segs[3].text = "channels" THEN done(<<"guilds", "!*", "channels">>)
                  ELSE IF n >= 2 THEN rest(<<"guilds", segs[2].text>>)
                  ELSE rest(<<"guilds">>)
           [] resource = "Interactions" ->
                  IF n = 4 /\ segs[3].text = "callback"
                  THEN done(<<"interactions", segs[2].text, "!", "callback">>)
                  ELSE IF n < 2 THEN panic
                  ELSE rest(<<"interactions", segs[2].text>>)
           [] OTHER ->
                  IF n >= 2 THEN rest(<<segs[1].text, segs[2].text>>)
                  ELSE rest(<<segs[1].text>>)

ApplyBucketInfo ==
    /\ \E method \in {"GET", "DELETE"} : \E segs \in Paths :
       \E now \in Nows : \E overflow_checks \in BOOLEAN :
         /\ call' = <<"BucketInfo::new", method, segs, now, overflow_checks>>
         /\ result' = BucketInfo_new(method, segs, now, overflow_checks)
    /\ UNCHANGED <<ovars, nvars, ret, client, loop, table>>

FnNext ==
    \/ ApplyStatusFrom
    \/ ApplyBucketInfo
    \/ ApplyPostResponse
    \/ ApplyStoreError
    \/ ApplyMatchStatus
    \/ ApplyFetchGlobalRatelimit
    \/ ApplyUpdateRatelimits
    \/ ApplyRequest

SpecFn == Init /\ [][FnNext]_vars

\* C12: a GlobalRatelimited status has reset_at at the first millisecond
\* of the second after the one the round trip started in, and reset_after
\* equal to reset_at minus the time of observation, within (0, 1000]
C12_GlobalResetTimes ==
    (call[1] = "RatelimitStatus::from" /\ result.kind = "GlobalRatelimited")
      => LET ts == call[3]
             observed == call[3] + call[4]
         IN  /\ result.reset_at % 1000 = 0
             /\ ts < result.reset_at
             /\ result.reset_at - ts <= 1000
             /\ result.reset_after = result.reset_at - observed
             /\ 0 < result.reset_after
             /\ result.reset_after <= 1000

\* a global refusal observed some time after the round trip started, in
\* the middle of a second
C12_Witness ==
    /\ call[1] = "RatelimitStatus::from"
    /\ result.kind = "GlobalRatelimited"
    /\ call[4] > 0
    /\ result.reset_after < 1000


\* ------------------------------------------------------------------------
\* Cold and warm buckets (Spec)
\* ------------------------------------------------------------------------
\* an admission round trip was made in this step
RoundTrip == trips' = trips + 1

\* both records are there
Warm == kv.glimit # Nil /\ kv.rlimit # Nil

\* the round trip of r was answered in time: r neither goes round the loop
\* again for drift or overload nor ends as overloaded
Answered(r) == pc[r] = "check" /\ pc'[r] \notin {"check", "overloaded"}

C15_MissingHeaderSkipsUpdate ==
    (call[1] = "update_ratelimits" /\ Absent \in {call[2], call[3], call[4], call[5]})
      => ~result.invoked

\* stored = value * 1000, where the header text t reads value =
\* whole + fraction / 10^decimals
IsMilliseconds(stored, t) ==
    LET dotted == \E i \in 1..Len(t) : t[i] = "."
        dot == IF dotted THEN CHOOSE i \in 1..Len(t) : t[i] = "." ELSE Len(t) + 1
        decimals == IF dotted THEN Len(t) - dot ELSE 0
        whole == ParseDigits(SubSeq(t, 1, dot - 1))
        fraction == ParseDigits(SubSeq(t, dot + 1, Len(t)))
    IN  stored * 10^decimals = (whole * 10^decimals + fraction) * 1000

\* C16: the integers handed on for X-RateLimit-Reset and
\* X-RateLimit-Reset-After are the header values times 1000
C16_ResetIsMilliseconds ==
    (call[1] = "update_ratelimits" /\ result.invoked)
      => /\ call[4] # Absent => IsMilliseconds(result.args[4], call[4])
         /\ call[5] # Absent => IsMilliseconds(result.args[5], call[5])


\* ------------------------------------------------------------------------
\* Properties of the request descriptor (SpecFn)
\* ------------------------------------------------------------------------
\* C17: a request without an Authorization header is accepted, with identity
\* NoAuth, on the routes that need no credential, and fails with
\* InvalidRequest on every other route
C17_NoHeaderOnlyWhereOptional ==
    (call[1] = "request" /\ call[3] = Absent)
      => IF can_ignore_auth(call[2])
         THEN result.info.ok /\ result.info.global_id = DEFAULT_GLOBAL_ID
         ELSE ~result.info.ok /\ result.info.error[1] = "InvalidRequest"

\* the keys of a request: its global key and its route key
CoordinationKeys(request_info) ==
    {request_info.global_id_redis_key, request_info.route_bucket_redis_key}

\* C18: the keys of the request are disjoint from the keys of every request
\* of another identity, whatever its route
C18_KeysOfIdentitiesDisjoint ==
    (call[1] = "request" /\ result.info.ok)
      => \A bucket_info \in BucketInfos : \A header \in AuthHeaders :
           LET other == DiscordRequestInfo_new(bucket_info, header) IN
           (other.ok /\ other.global_id # result.info.global_id)
             => CoordinationKeys(other) \cap CoordinationKeys(result.info) = {}

\* C19: a request of identity NoAuth is admitted by the route-only script,
\* which gets the route key alone; the global limit, the slice counter and
\* the global lock are as before, and the status is not GlobalRatelimited
C19_NoAuthSkipsGlobal ==
    (call[1] = "request" /\ result.info.ok /\ result.info.global_id = DEFAULT_GLOBAL_ID)
      => /\ result.trip.script = "check_route_rl"
         /\ result.trip.keys = <<result.info.route_bucket_redis_key>>
         /\ result.info.global_id_redis_key # result.info.route_bucket_redis_key
         /\ result.trip.after.glimit = call[5].glimit
         /\ result.trip.after.gcount = call[5].gcount
         /\ result.trip.after.lock[GKey] = call[5].lock[GKey]
         /\ result.trip.status \notin {"GlobalRatelimited", "AwaitingGlobalLock", "HoldingGlobalLockAwaitingRouteLock"}

\* a NoAuth request on a route of the Channels family finds the identity's
\* slice counter at its limit and is admitted by the route-only script
C19_Witness ==
    /\ call[1] = "request"
    /\ result.info.ok
    /\ result.info.global_id = DEFAULT_GLOBAL_ID
    /\ result.info.resource = "Channels"
    /\ ~call[4]
    /\ call[5].glimit = 1
    /\ call[5].gcount = 1
    /\ result.trip.status = "Allowed"


\* ------------------------------------------------------------------------
\* Properties of global discovery (SpecFn)
\* ------------------------------------------------------------------------
\* C20: for every max_concurrency m of 16 bits the discovered limit is
\* max(500, 25 * m) when m > 1 and 50 otherwise, and nothing overflows
C20_LimitFromMaxConcurrency ==
    call[1] = "fetch_discord_global_ratelimit"
      => /\ ~result.panicked
         /\ result.limit = IF call[2] > 1
                           THEN Max({LARGE_SHARDING_MINIMUM, LARGE_SHARDING_INTERNAL_SHARD_RL * call[2]})
                           ELSE DEFAULT


\* ------------------------------------------------------------------------
\* ProxyRedisClient: the steps of construction and of the spawned tasks
\* ------------------------------------------------------------------------
\* instance.register_scripts().await? in new: one script_load; an error
\* ends new with Err
register_scripts ==
    /\ client.new = "registering"
    /\ client.registered < Len(SCRIPTS)
    /\ \E ok \in BOOLEAN :
         client' = IF ok
                   THEN [client EXCEPT !.registered = @ + 1,
                                       !.cached = @ \cup {SCRIPTS[client.registered + 1]}]
                   ELSE [client EXCEPT !.new = "failed"]
    /\ UNCHANGED <<ovars, nvars, ret, call, result, loop, table>>

\* tokio::spawn(start_pubsub_task) and Ok(instance): the caller has the
\* client from here on
new_returns ==
    /\ client.new = "registering"
    /\ client.registered = Len(SCRIPTS)
    /\ client' = [client EXCEPT !.new = "returned", !.pubsub = "subscribing"]
    /\ UNCHANGED <<ovars, nvars, ret, call, result, loop, table>>

\* start_pubsub_task: subscribe("unlock"), on an error sleep 5 s and retry
subscribe ==
    /\ client.pubsub \in {"subscribing", "sleeping"}
    /\ \E ok \in BOOLEAN :
         client' = IF client.pubsub = "sleeping"
                   THEN [client EXCEPT !.pubsub = "subscribing"]
                   ELSE IF ok
                   THEN [client EXCEPT !.pubsub = "subscribed", !.subscribed = TRUE]
                   ELSE [client EXCEPT !.pubsub = "sleeping"]
    /\ UNCHANGED <<ovars, nvars, ret, call, result, loop, table>>

\* the pool has reconnected, maybe to a store that has lost its script
\* cache: reconnect_stream.recv() wakes the reconnect task
on_reconnect ==
    /\ client.new # "failed"
    /\ client.reconnects < MaxReconnects
    /\ client.reload = Nil
    /\ \E flushed \in BOOLEAN :
         client' = [client EXCEPT !.reconnects = @ + 1,
                                  !.reload = 0,
                                  !.cached = IF flushed THEN {} ELSE @]
    /\ UNCHANGED <<ovars, nvars, ret, call, result, loop, table>>

\* the reconnect task: register_scripts, one script_load; an error is
\* logged and the task awaits the next reconnect
reload_scripts ==
    /\ client.reload # Nil
    /\ \E ok \in BOOLEAN :
         client' = IF ok /\ client.reload < Len(SCRIPTS)
                   THEN [client EXCEPT !.reload = @ + 1,
                                       !.cached = @ \cup {SCRIPTS[client.reload + 1]}]
                   ELSE [client EXCEPT !.reload = Nil]
    /\ UNCHANGED <<ovars, nvars, ret, call, result, loop, table>>

\* the subscriber connection has reconnected: the store no longer has it on
\* the channel until manage_subscriptions has subscribed again
subscriber_reconnect ==
    /\ client.subscribed
    /\ client.reconnects < MaxReconnects
    /\ client' = [client EXCEPT !.reconnects = @ + 1, !.subscribed = FALSE]
    /\ UNCHANGED <<ovars, nvars, ret, call, result, loop, table>>

manage_subscriptions ==
    /\ client.pubsub = "subscribed"
    /\ ~client.subscribed
    /\ client' = [client EXCEPT !.subscribed = TRUE]
    /\ UNCHANGED <<ovars, nvars, ret, call, result, loop, table>>

\* an admission round trip on the client new has returned: evalsha of
\* check_global_and_route_rl with the cache and the channel as they are
serve_admission ==
    /\ client.new = "returned"
    /\ client.served < MaxServed
    /\ client' = [client EXCEPT !.served = @ + 1,
                                !.last = <<"evalsha", SCRIPTS[1] \in client.cached,
                                           client.cached = {SCRIPTS[i] : i \in 1..Len(SCRIPTS)},
                                           client.subscribed>>]
    /\ UNCHANGED <<ovars, nvars, ret, call, result, loop, table>>

ClientNext ==
    \/ register_scripts
    \/ new_returns
    \/ subscribe
    \/ on_reconnect
    \/ reload_scripts
    \/ subscriber_reconnect
    \/ manage_subscriptions
    \/ serve_admission

SpecClient == Init /\ [][ClientNext]_vars

\* ------------------------------------------------------------------------
\* Properties of the coordination client (SpecClient)
\* ------------------------------------------------------------------------
\* C22: at startup and after every reconnect, an admission round trip is
\* served only with every script registered and the unlock channel
\* subscribed
C22_ServesOnlyWhenReady ==
    client.last[1] = "evalsha" => (client.last[3] /\ client.last[4])

\* ------------------------------------------------------------------------
\* Properties of the strategies (SpecFn)
\* ------------------------------------------------------------------------
\* C21: with the strategy of a lock set to Loose, a request that finds the
\* lock held by another goes on to the upstream without awaiting the
\* unlock; with Strict it awaits the unlock and checks again
C21_LooseDoesNotWait ==
    call[1] = "match status"
      => /\ result.kind = "AwaitingGlobalLock"
              => IF call[2] = "Loose" THEN result.pc = "allowed" /\ ~result.awaits
                                      ELSE result.awaits
         /\ result.kind \in {"AwaitingRouteLock", "HoldingGlobalLockAwaitingRouteLock"}
              => IF call[3] = "Loose" THEN ~result.awaits ELSE result.awaits


\* ------------------------------------------------------------------------
\* Properties of store errors on the request path (SpecFn)
\* ------------------------------------------------------------------------
\* C23: an error of the store in the admission round trip or in the release
\* of the global lock ends the request with an error, answered with 500,
\* and the request does not reach the upstream
C23_StoreErrorIs500 ==
    (/\ call[1] = "check_ratelimits"
     /\ \/ call[2] = "round trip"
        \/ (call[2] = "unlock_global" /\ result.fetches))
      => /\ result.outcome = "Err"
         /\ result.response.status = 500
         /\ ~result.response.forwarded

\* the request took both locks and the release of the global lock failed
C23_Witness ==
    /\ call = <<"check_ratelimits", "unlock_global", <<5, 1, 1>>>>
    /\ result.response.status = 500


\* ------------------------------------------------------------------------
\* Properties of the post-response update (SpecFn)
\* ------------------------------------------------------------------------
\* C24: whatever fails in the post-response update (the store, a lost
\* lock, a header value that does not parse), the client gets the response
\* of the upstream
C24_UpdateFailureKeepsResponse ==
    call[1] = "post response" => (~result.panicked /\ result.response = "upstream")


\* ------------------------------------------------------------------------
\* Properties of the bucket classifier (SpecFn)
\* ------------------------------------------------------------------------
\* C25: for every method and path the classifier returns a descriptor,
\* never an error and never a panic, and a first segment that is not in the
\* resource table gives resource None
C25_ClassifierNeverFails ==
    call[1] = "BucketInfo::new"
      => /\ result.ok
         /\ ~result.panicked
         /\ (call[3] # <<>> /\ call[3][1].text \notin
               {"channels", "guilds", "webhooks", "invites", "interactions", "oauth2"})
              => result.resource = "None"


\* the last piece of a bucket
Last(bucket) == bucket[Len(bucket)]

\* the path ends in messages/{M}, M a snowflake that fits 64 bits and is
\* not ahead of the clock
EndsInMessage(segs, now) ==
    /\ Len(segs) >= 4
    /\ segs[Len(segs) - 1].text = "messages"
    /\ is_snowflake(segs[Len(segs)])
    /\ segs[Len(segs)].fits
    /\ segs[Len(segs)].ts <= now

\* C26: for DELETE on a path ending in messages/{M}, the route bucket ends
\* in !14d when M is more than 14 days old, in !10s when it is less than
\* 10 ms old, and M is a snowflake like any other otherwise
C26_MessageAgeBuckets ==
    (call[1] = "BucketInfo::new" /\ call[2] = "DELETE" /\ EndsInMessage(call[3], call[4]))
      => LET age == call[4] - call[3][Len(call[3])].ts IN
         /\ result.ok
         /\ Last(result.route) =
              (IF age > 14 * 24 * 60 * 60 * 1000 THEN "!14d"
               ELSE IF age < 10 THEN "!10s" ELSE "!*")

\* C27: for a webhooks path whose token decodes to interaction:<id>, the
\* route bucket has the id in the place of the token, the display bucket
\* has !interaction there, and the display bucket holds neither the token
\* nor the id
C27_InteractionWebhookHidden ==
    (/\ call[1] = "BucketInfo::new"
     /\ Len(call[3]) = 3
     /\ call[3][1].text = "webhooks"
     /\ call[3][3].interaction # "")
      => LET pieces == {result.display[i] : i \in 1..Len(result.display)} IN
         /\ result.ok
         /\ Last(result.route) = call[3][3].interaction
         /\ Last(result.display) = "!interaction"
         /\ call[3][3].text \notin pieces
         /\ call[3][3].interaction \notin pieces

\* C28: for interactions/{id}/{token}/callback, whatever the token, the
\* route bucket and the display bucket are interactions/{id}/!/callback
C28_InteractionCallbackHidden ==
    (/\ call[1] = "BucketInfo::new"
     /\ Len(call[3]) = 4
     /\ call[3][1].text = "interactions"
     /\ call[3][4].text = "callback")
      => /\ result.ok
         /\ result.route = <<"interactions", call[3][2].text, "!", "callback">>
         /\ result.display = result.route

\* C29: in the route bucket a snowflake stays as it is only right after
\* channels/, guilds/ or interactions/; every other snowflake of the path
\* is !* there
C29_OnlyMajorSnowflakeKept ==
    (call[1] = "BucketInfo::new" /\ result.ok)
      => \A i \in 1..Len(call[3]) :
           is_snowflake(call[3][i])
             => IF i = 2 /\ call[3][1].text \in {"channels", "guilds", "interactions"}
                THEN Len(result.route) >= 2 /\ result.route[2] = call[3][i].text
                ELSE /\ i <= Len(result.route)
                     /\ result.route[i] = "!*"

AgeSplit(method, segs) ==
    /\ Len(segs) > 0
    /\ segs[1].text = "guilds"
    /\ method = "DELETE"
    /\ \E i \in 3..Len(segs) : is_snowflake(segs[i]) /\ segs[i - 1].text = "messages"

C33_PassedTokenIsStoredLock ==
    (call[1] = "request" /\ result.info.ok /\ result.trip.status = "Allowed")
      => /\ (result.trip.pass_lock_token # NoTok) = result.trip.holds_route_lock
         /\ result.trip.holds_route_lock
              => result.trip.after.lock[RKey] = result.trip.pass_lock_token


\* ------------------------------------------------------------------------
\* The bucket named by a route 429 of the proxy
\* ------------------------------------------------------------------------
\* check_ratelimits on RouteRatelimited: responses::ratelimited is given
\* request_info.route_bucket, which DiscordRequestInfo::new took from
\* bucket_info.route_bucket, and sets it as x-ratelimit-bucket
x_ratelimit_bucket(bucket_info) == bucket_info.route

\* C40: the x-ratelimit-bucket header of a route 429 the proxy builds is
\* the display bucket of the request, so it holds no segment the classifier
\* hides there
C40_HeaderIsDisplayBucket ==
    (call[1] = "BucketInfo::new" /\ result.ok)
      => x_ratelimit_bucket(result) = result.display


\* ------------------------------------------------------------------------
\* Properties of the controller's waits and releases (Spec)
\* ------------------------------------------------------------------------
\* C39: a release of the global lock by a request whose lock has expired or
\* has been taken again writes no limit record, deletes no lock and
\* publishes nothing, and the request goes on as after a release in time:
\* forwarded when it was Allowed, back to the check otherwise (once its wait
\* for the route lock is over)
C39_LateReleaseChangesNothing ==
    [][\A r \in Reqs :
         LET Releases == fetch[r] = "todo" /\ fetch'[r] # "todo"
             Late == kv.lock[GKey] # tok[r]
         IN
         (Releases /\ Late)
           => /\ kv' = kv
              /\ inbox' = inbox
              /\ pc'[r] = (IF pc[r] # "join" THEN "allowed"
                           ELSE IF wait[r] = "done" THEN "check" ELSE "join")
      ]_vars

\* a request was allowed as the holder of the global lock and no limit
\* record was written: its release came late
C39_Witness ==
    \E r \in Reqs : pc[r] = "allowed" /\ kv.glimit = Nil

\* C32: while a request holds the global lock and waits for the route lock,
\* its global discovery and release can run whatever the state of the wait,
\* and the request is back at the check only once both have completed
C32_DiscoveryBesideRouteWait ==
    [][\A r \in Reqs :
         /\ (pc[r] = "join" /\ fetch[r] = "todo") => ENABLED fetch_global_ratelimit(r)
         /\ (pc[r] = "join" /\ pc'[r] = "check") => ~(fetch[r] = "todo" /\ wait[r] \in {"reg", "waiting", "cleanup", "emptied"})
      ]_vars

\* the global lock has been released while the wait for the route lock goes on
C32_Witness ==
    \E r \in Reqs :
        pc[r] = "join" /\ fetch[r] = "done" /\ wait[r] = "waiting" /\ wkey[r] = RKey

\* C37: an unlock message signals only the waiters queued under its key
\* when it is dispatched, so a request that registers afterwards is not
\* signalled by it; such a request can always leave the wait by the lock
\* timeout, and after the cleanup it is back at the admission check (or, as
\* the holder of the global lock, at its release)
C37_MissedUnlockEndsByTimeout ==
    [][\A r \in Reqs :
         /\ (sig'[r] /\ ~sig[r])
              => /\ wait[r] = "waiting"
                 /\ inbox[ProcOf(r)] # <<>>
                 /\ Head(inbox[ProcOf(r)]) = wkey[r]
                 /\ HasChannel(ProcOf(r), wkey[r])
                 /\ InQueue(r, chan[ProcOf(r)][wkey[r]])
         /\ (pc[r] = "join" /\ wait[r] = "waiting") => ENABLED await_lock_expired(r)
         /\ (wait[r] \in {"cleanup", "emptied"} /\ wait'[r] \notin {"cleanup", "emptied"})
              => \/ pc'[r] = "check"
                 \/ fetch[r] = "todo" /\ pc'[r] = "join" /\ wait'[r] = "done"
      ]_vars

\* the global lock was released and the unlock message handled by the
\* replica before the request registered: it waits unsignalled
C37_Witness ==
    \E r \in Reqs :
        /\ pc[r] = "join" /\ wait[r] = "waiting" /\ wkey[r] = GKey
        /\ ~sig[r]
        /\ kv.glimit # Nil
        /\ inbox[ProcOf(r)] = <<>>


\* ------------------------------------------------------------------------
\* Proxy::check_ratelimits of one request, with the clock (SpecLoop)
\* ------------------------------------------------------------------------
\* lock values: the token of the request's current round trip (<<1, 0>>: the
\* token of one of its earlier round trips), the token of another request
Mine == <<1, 1>>
Other == <<2, 1>>

\* config.lock_timeout in ms, as AppEnvConfig::from_env defaults it
LOCK_WAIT_TIMEOUT == 500

\* lock_token = random_string(8) of the next round trip: the token of the
\* round trip before is from then on the token of an earlier one
Demote(K) ==
    [K EXCEPT !.lock = [k \in Keys |-> IF K.lock[k] = Mine THEN <<1, 0>> ELSE K.lock[k]]]

\* the clock goes on by d ms: in a new second the slice counter is a new key
Pass(l, d) ==
    [l EXCEPT !.ms = (l.ms + d) % 1000,
              !.slice = (l.slice + ((l.ms + d) \div 1000)) % 2,
              !.K = IF l.ms + d >= 1000 THEN [l.K EXCEPT !.gcount = 0] ELSE l.K]

\* the request arrives: the store it finds, and where in its second
LoopStart ==
    /\ loop.pc = "idle"
    /\ \E K \in {EmptyKv,
                 [EmptyKv EXCEPT !.lock[GKey] = Other],
                 [EmptyKv EXCEPT !.lock[RKey] = Other],
                 [EmptyKv EXCEPT !.glimit = 2, !.lock[RKey] = Other],
                 [EmptyKv EXCEPT !.glimit = 2, !.rlimit = 1, !.rremaining = 1],
                 [EmptyKv EXCEPT !.glimit = 2, !.rlimit = 1],
                 [EmptyKv EXCEPT !.glimit = 1, !.gcount = 1, !.rlimit = 1, !.rremaining = 1]} :
       \E ms \in {0, 950} :
         loop' = [loop EXCEPT !.pc = "top", !.K = K, !.ms = ms]
    /\ UNCHANGED <<ovars, nvars, ret, call, result, client, table>>

\* one turn of the loop: the round trip, RatelimitStatus::from, the match
LoopTurn ==
    /\ loop.pc = "top"
    /\ \E check_time \in {50, 100, 1000} :
         LET res == check_global_and_route_rl(loop.K, Mine)
             status == RatelimitStatus_from(loop.overload_count, loop.ms, check_time, res.data)
             after == PcAfter(status)
             fetches == \/ status.kind = "HoldingGlobalLockAwaitingRouteLock"
                        \/ (status.kind = "Allowed" /\ status.holds_global_lock)
             keep == fetches \/ (status.kind = "Allowed" /\ status.holds_route_lock)
             returns == after \in Denied \cup {"allowed"}
         IN  loop' = Pass([loop EXCEPT
                 !.pc = IF returns THEN "returned"
                        ELSE IF after = "join" THEN "wait"
                        ELSE IF after = "check" THEN "top" ELSE "fetch",
                 !.exit = IF returns THEN after ELSE "none",
                 !.K = IF keep THEN res.s ELSE Demote(res.s),
                 !.n = 1 - @,
                 !.overload_count = IF status.kind = "RetryProxyOverloaded" THEN @ + 1 ELSE @,
                 !.fetch = fetches,
                 !.waiting = after = "join",
                 !.wkey = IF after = "join" /\ status.kind # "AwaitingGlobalLock"
                          THEN RKey ELSE GKey,
                 !.sig = FALSE,
                 !.spent = [g |-> IF @.g + (res.s.gcount - loop.K.gcount) > MaxSpent
                                  THEN MaxSpent ELSE @.g + (res.s.gcount - loop.K.gcount),
                            r |-> @.r + (loop.K.rremaining - res.s.rremaining)],
                 !.last = [check_time |-> check_time, data |-> res.data, kind |-> status.kind]],
               check_time)
    /\ UNCHANGED <<ovars, nvars, ret, call, result, client, table>>

\* fetch_global_ratelimit: in the Allowed arm, or as one future of try_join!
LoopFetch ==
    /\ loop.pc \in {"fetch", "wait"}
    /\ loop.fetch
    /\ \E ratelimit \in FetchedLimits :
         loop' = [loop EXCEPT
             !.K = unlock_global(loop.K, Mine, ratelimit).s,
             !.fetch = FALSE,
             !.pc = IF loop.pc = "fetch" THEN "returned"
                    ELSE IF loop.waiting THEN "wait" ELSE "top",
             !.exit = IF loop.pc = "fetch" THEN "allowed" ELSE "none"]
    /\ UNCHANGED <<ovars, nvars, ret, call, result, client, table>>

\* Proxy::await_lock: the receiver completes, or sleep(lock_timeout) does
LoopAwait ==
    /\ loop.pc = "wait"
    /\ loop.waiting
    /\ \E d \in {50, LOCK_WAIT_TIMEOUT} :
         /\ d = 50 => loop.sig
         /\ loop' = Pass([loop EXCEPT
                !.waiting = FALSE,
                !.sig = FALSE,
                !.pc = IF loop.fetch THEN "wait" ELSE "top"], d)
    /\ UNCHANGED <<ovars, nvars, ret, call, result, client, table>>

\* EX 5 of a lock key runs out
LoopLockExpires(k) ==
    /\ loop.pc \notin {"idle", "returned"}
    /\ loop.K.lock[k] # NoTok
    /\ loop' = [loop EXCEPT !.K.lock[k] = NoTok]
    /\ UNCHANGED <<ovars, nvars, ret, call, result, client, table>>

\* the other request that holds the lock of k releases it: the record is
\* written, the lock deleted and unlock k published
LoopOtherReleases(k) ==
    /\ loop.pc \notin {"idle", "returned"}
    /\ loop.K.lock[k] = Other
    /\ loop' = [loop EXCEPT
           !.K = IF k = GKey
                 THEN [loop.K EXCEPT !.glimit = 2, !.lock[GKey] = NoTok]
                 ELSE [loop.K EXCEPT !.rlimit = 1, !.rremaining = 1, !.lock[RKey] = NoTok],
           !.sig = @ \/ (loop.pc = "wait" /\ loop.waiting /\ loop.wkey = k)]
    /\ UNCHANGED <<ovars, nvars, ret, call, result, client, table>>

LoopNext ==
    \/ LoopStart
    \/ LoopTurn
    \/ LoopFetch
    \/ LoopAwait
    \/ \E k \in Keys : LoopLockExpires(k)
    \/ \E k \in Keys : LoopOtherReleases(k)

SpecLoop == Init /\ [][LoopNext]_vars

\* fair scheduling of the request's task, locks that run out; whether the
\* holder of a lock releases it is left open
SpecLoopFair ==
    /\ SpecLoop
    /\ WF_vars(LoopStart) /\ WF_vars(LoopTurn) /\ WF_vars(LoopFetch) /\ WF_vars(LoopAwait)
    /\ \A k \in Keys : WF_vars(LoopLockExpires(k))

\* ------------------------------------------------------------------------
\* Properties of the loop (SpecLoop)
\* ------------------------------------------------------------------------
\* C31: a round trip whose result is observed in the next second is
\* discarded whatever the script replied, the overload count stays as it
\* was also when the round trip took more than 50 ms, and the request is at
\* the top of the loop again, in a new slice and with no lock of the store
\* under the token of its next round trip
C31_DriftRetriesWithoutCount ==
    [][(loop.pc = "top" /\ loop'.n # loop.n /\ loop.ms + loop'.last.check_time >= 1000)
         => /\ loop'.last.kind = "GlobalRatelimitDrifted"
            /\ loop'.overload_count = loop.overload_count
            /\ loop'.pc = "top"
            /\ loop'.slice # loop.slice
            /\ \A k \in Keys : loop'.K.lock[k] # Mine
      ]_vars

\* a round trip that took more than 50 ms and that the script had admitted
\* was discarded as drifted
C31_Witness ==
    /\ loop.pc = "top"
    /\ loop.last.kind = "GlobalRatelimitDrifted"
    /\ loop.last.check_time > 50
    /\ loop.last.data[1] = 5

\* C34: a request answered by the proxy with 429 or 503 has, over all its
\* round trips, added nothing to the global slice counters and taken
\* nothing from the route's remaining
C34_RefusedRequestSpendsNothing ==
    loop.exit \in Denied => loop.spent = [g |-> 0, r |-> 0]

\* C38: under fair scheduling every call of check_ratelimits returns
C38_CheckRatelimitsReturns ==
    (loop.pc = "top") ~> (loop.pc = "returned")

\* ------------------------------------------------------------------------
\* The waiter table, await point by await point (SpecTable): the tasks of
\* two requests that wait for one key, and the task that dispatches the
\* store's unlock messages. Each step runs from one await of the source to
\* the next; a lock is asked for in one step and used in the following one.
\* The read lock is granted when no task writes, the write lock when no
\* task reads or writes, a mutex when no task holds it.
\* ------------------------------------------------------------------------
\* the oneshot sender made by the running call of await_lock of task w
tx_of(T, w) == <<w, T.round[w]>>

\* oneshot::Sender::is_closed: the receiver of the sender was dropped
tx_is_closed(T, tx) == ~(T.round[tx[1]] = tx[2] /\ T.live[tx[1]])

\* push_pending_client, after it has locked the queue
push_pending_client(T, w) ==
    [T EXCEPT !.queue[T.ch[w]] = Append(@, tx_of(T, w)), !.mx[T.ch[w]] = Nil]

\* (variant: the arm under the write lock inserts without looking first)
await_lock_write_arm_inserting(T, w) ==
    [T EXCEPT !.map = T.next, !.next = @ + 1,
              !.queue[T.next] = <<tx_of(T, w)>>,
              !.writer = Nil, !.pc[w] = "a_rx"]

\* await_lock, under the write lock: the key is looked up again, and a channel
\* that another task inserted meanwhile is pushed to
await_lock_write_arm(T, w) ==
    IF T.map # Nil
    THEN [T EXCEPT !.ch[w] = T.map, !.pc[w] = "a_wlock"]
    ELSE [T EXCEPT !.map = T.next, !.next = @ + 1,
                   !.queue[T.next] = <<tx_of(T, w)>>,
                   !.writer = Nil, !.pc[w] = "a_rx"]

\* one step of await_lock of task w
await_lock_step(w) ==
    /\ \/ /\ table.pc[w] = "idle"
          /\ table.round[w] < MaxRounds
          /\ table' = [table EXCEPT !.pc[w] = "a_read", !.round[w] = @ + 1,
                                    !.live[w] = TRUE]
       \/ /\ table.pc[w] = "a_read"
          /\ table.writer = Nil
          /\ table' = [table EXCEPT !.readers = @ \cup {w}, !.pc[w] = "a_match"]
       \/ /\ table.pc[w] = "a_match"
          /\ table' = IF table.map # Nil
                      THEN [table EXCEPT !.ch[w] = table.map, !.pc[w] = "a_rlock"]
                      ELSE [table EXCEPT !.readers = @ \ {w}, !.pc[w] = "a_write"]
       \/ /\ table.pc[w] = "a_rlock"
          /\ table.mx[table.ch[w]] = Nil
          /\ table' = [table EXCEPT !.mx[table.ch[w]] = w, !.pc[w] = "a_rpush"]
       \/ /\ table.pc[w] = "a_rpush"
          /\ table' = [push_pending_client(table, w) EXCEPT
                          !.readers = @ \ {w}, !.ch[w] = Nil, !.pc[w] = "a_rx"]
       \/ /\ table.pc[w] = "a_write"
          /\ table.writer = Nil /\ table.readers = {}
          /\ table' = [table EXCEPT !.writer = w, !.pc[w] = "a_wmatch"]
       \/ /\ table.pc[w] = "a_wmatch"
          /\ table' = await_lock_write_arm(table, w)
       \/ /\ table.pc[w] = "a_wlock"
          /\ table.mx[table.ch[w]] = Nil
          /\ table' = [table EXCEPT !.mx[table.ch[w]] = w, !.pc[w] = "a_wpush"]
       \/ /\ table.pc[w] = "a_wpush"
          /\ table' = [push_pending_client(table, w) EXCEPT
                          !.writer = Nil, !.ch[w] = Nil, !.pc[w] = "a_rx"]
       \/ /\ table.pc[w] = "a_rx"
          /\ tx_of(table, w) \in table.sent
          /\ table' = [table EXCEPT !.sent = @ \ {tx_of(table, w)},
                                    !.live[w] = FALSE, !.pc[w] = "idle"]
    /\ UNCHANGED <<ovars, nvars, ret, call, result, client, loop>>

\* the sleep of the caller's select wins: the future of await_lock is dropped
\* at the await it stands at, with its guards and its receiver, and
\* cleanup_pending_locks is called
await_lock_timeout(w) ==
    /\ table.pc[w] \in {"a_read", "a_rlock", "a_write", "a_wlock", "a_rx"}
    /\ table' = [table EXCEPT !.readers = @ \ {w},
                              !.writer = IF @ = w THEN Nil ELSE @,
                              !.sent = @ \ {tx_of(table, w)},
                              !.ch[w] = Nil, !.live[w] = FALSE, !.pc[w] = "c_read"]
    /\ UNCHANGED <<ovars, nvars, ret, call, result, client, loop>>

\* (variant: the queue stays locked while the write lock is asked for)
cleanup_sweep_keeping_queue_locked(T, w) ==
    LET open == SelectSeq(T.queue[T.ch[w]], LAMBDA tx : ~tx_is_closed(T, tx))
    IN  [T EXCEPT !.queue[T.ch[w]] = open,
                  !.pc[w] = IF Len(open) = 0 THEN "c_write" ELSE "idle"]

\* cleanup_pending_locks, with the queue locked: the closed senders are
\* removed, and the queue is unlocked
cleanup_sweep(T, w) ==
    LET open == SelectSeq(T.queue[T.ch[w]], LAMBDA tx : ~tx_is_closed(T, tx))
    IN  [T EXCEPT !.queue[T.ch[w]] = open, !.mx[T.ch[w]] = Nil,
                  !.ch[w] = IF Len(open) = 0 THEN @ ELSE Nil,
                  !.pc[w] = IF Len(open) = 0 THEN "c_write" ELSE "idle"]

\* one step of cleanup_pending_locks of task w
cleanup_pending_locks_step(w) ==
    /\ \/ /\ table.pc[w] = "c_read"
          /\ table.writer = Nil
          /\ table' = [table EXCEPT !.readers = @ \cup {w}, !.pc[w] = "c_match"]
       \/ /\ table.pc[w] = "c_match"
          /\ table' = IF table.map # Nil
                      THEN [table EXCEPT !.readers = @ \ {w}, !.ch[w] = table.map,
                                         !.pc[w] = "c_lock"]
                      ELSE [table EXCEPT !.readers = @ \ {w}, !.pc[w] = "idle"]
       \/ /\ table.pc[w] = "c_lock"
          /\ table.mx[table.ch[w]] = Nil
          /\ table' = [table EXCEPT !.mx[table.ch[w]] = w, !.pc[w] = "c_sweep"]
       \/ /\ table.pc[w] = "c_sweep"
          /\ table' = cleanup_sweep(table, w)
       \/ /\ table.pc[w] = "c_write"
          /\ table.writer = Nil /\ table.readers = {}
          /\ table' = [table EXCEPT !.writer = w, !.pc[w] = "c_wmatch"]
       \/ /\ table.pc[w] = "c_wmatch"
          /\ table' = IF table.map # Nil
                      THEN [table EXCEPT !.ch[w] = table.map, !.pc[w] = "c_wlock"]
                      ELSE [table EXCEPT !.writer = Nil, !.ch[w] = Nil, !.pc[w] = "idle"]
       \/ /\ table.pc[w] = "c_wlock"
          /\ table.mx[table.ch[w]] = Nil
          /\ table' = [table EXCEPT !.mx[table.ch[w]] = w, !.pc[w] = "c_len"]
       \/ /\ table.pc[w] = "c_len"
          /\ table' = [table EXCEPT
                          !.mx[table.ch[w]] = Nil,
                          !.map = IF Len(table.queue[table.ch[w]]) = 0 THEN Nil ELSE @,
                          !.writer = Nil, !.ch[w] = Nil, !.pc[w] = "idle"]
    /\ UNCHANGED <<ovars, nvars, ret, call, result, client, loop>>

\* one step of release_lock of the dispatching task
release_lock_step(t) ==
    /\ \/ /\ table.pc[t] = "idle"
          /\ table.round[t] < MaxReleases
          /\ table' = [table EXCEPT !.pc[t] = "r_write", !.round[t] = @ + 1]
       \/ /\ table.pc[t] = "r_write"
          /\ table.writer = Nil /\ table.readers = {}
          /\ table' = [table EXCEPT !.writer = t, !.pc[t] = "r_match"]
       \/ /\ table.pc[t] = "r_match"
          /\ table' = IF table.map # Nil
                      THEN [table EXCEPT !.ch[t] = table.map, !.map = Nil,
                                         !.writer = Nil, !.pc[t] = "r_lock"]
                      ELSE [table EXCEPT !.writer = Nil, !.pc[t] = "idle"]
       \/ /\ table.pc[t] = "r_lock"
          /\ table.mx[table.ch[t]] = Nil
          /\ table' = [table EXCEPT !.mx[table.ch[t]] = t, !.pc[t] = "r_drain"]
       \/ /\ table.pc[t] = "r_drain"
          /\ table' = [table EXCEPT
                          !.sent = @ \cup {table.queue[table.ch[t]][i] :
                                             i \in {j \in 1..Len(table.queue[table.ch[t]]) :
                                                      ~tx_is_closed(table, table.queue[table.ch[t]][j])}},
                          !.queue[table.ch[t]] = <<>>,
                          !.mx[table.ch[t]] = Nil, !.ch[t] = Nil, !.pc[t] = "idle"]
    /\ UNCHANGED <<ovars, nvars, ret, call, result, client, loop>>

TableNext ==
    \/ \E w \in WaiterTasks : await_lock_step(w)
    \/ \E w \in WaiterTasks : await_lock_timeout(w)
    \/ \E w \in WaiterTasks : cleanup_pending_locks_step(w)
    \/ release_lock_step(ReleaseTask)

SpecTable == Init /\ [][TableNext]_vars

\* fair scheduling of every task that is inside one of the three operations;
\* whether a sleep wins, and whether an operation is called at all, is left open
SpecTableFair ==
    /\ SpecTable
    /\ \A w \in WaiterTasks : WF_vars(await_lock_step(w) /\ table.pc[w] # "idle")
    /\ \A w \in WaiterTasks : WF_vars(cleanup_pending_locks_step(w))
    /\ WF_vars(release_lock_step(ReleaseTask) /\ table.pc[ReleaseTask] # "idle")

\* ------------------------------------------------------------------------
\* Properties of the waiter table (SpecTable)
\* ------------------------------------------------------------------------
\* C35: a task that has registered its sender and whose receiver is alive
\* has the sender in the queue the table holds under the key, or has been
\* signalled, or has it in a queue that release_lock took out of the table
\* and is about to drain
C35_RegisteredWaiterKept ==
    \A w \in WaiterTasks :
        table.pc[w] = "a_rx" =>
            \/ /\ table.map # Nil
               /\ \E i \in 1..Len(table.queue[table.map]) :
                      table.queue[table.map][i] = tx_of(table, w)
            \/ tx_of(table, w) \in table.sent
            \/ /\ table.pc[ReleaseTask] \in {"r_lock", "r_drain"}
               /\ \E i \in 1..Len(table.queue[table.ch[ReleaseTask]]) :
                      table.queue[table.ch[ReleaseTask]][i] = tx_of(table, w)

\* a first registration that found, under the write lock, the channel another
\* task had inserted, beside that task waiting in the channel's queue
C35_Witness ==
    \E w, v \in WaiterTasks :
        /\ table.pc[w] = "a_wpush"
        /\ table.pc[v] = "a_rx"
        /\ table.map # Nil
        /\ table.queue[table.map] = <<tx_of(table, v)>>

\* C36: no task stays for ever at a request of the table's read or write
\* lock or of the mutex of a queue
C36_EveryLockRequestGranted ==
    \A t \in WaiterTasks \cup {ReleaseTask} :
        []<>(table.pc[t] \notin {"a_read", "a_rlock", "a_write", "a_wlock", "c_read",
                                 "c_lock", "c_write", "c_wlock", "r_write", "r_lock"})

\* a registration that holds the read lock and asks for the queue's mutex
\* while a cleanup holds that mutex and release_lock asks for the write lock
C36_Witness ==
    \E w, v \in WaiterTasks :
        /\ table.pc[w] = "a_rlock"
        /\ table.pc[v] = "c_sweep"
        /\ table.ch[w] = table.ch[v]
        /\ table.pc[ReleaseTask] = "r_write"

====
